---- MODULE Spec2Model ----
(***************************************************************************)
(* Grammar extraction of disco-dop (discodop/grammar.py): LCFRS            *)
(* productions, the DOP reduction, Double-DOP and the ID generator.        *)
(*                                                                         *)
(* Strings are sequences of one-character strings, so that formatting      *)
(* ("%s@%d-%d"), substring tests ('@' in z, '}<' in lhs) and ordering are  *)
(* computed, not assumed.  Python indices are 0-based; sequences here are  *)
(* 1-based, so sent[i] of the code is sent[i + 1] below.                   *)
(***************************************************************************)
EXTENDS Integers, Sequences, FiniteSets, TLC

VARIABLES
    mode,           \* which entry point this behaviour runs
    pc,             \* position inside the running function
    tree, sent,     \* lcfrs_productions: its arguments
    todo, rules,    \* lcfrs_productions: subtrees still to visit, rules so far
    result,         \* what the running function returned (or the error raised)
    cnt, ids,       \* UniqueIDs: self.cnt, self.ids
    calls,          \* UniqueIDs: the calls made so far, <<op, key, value>>
    corpus,         \* dopreduction: zip(trees, sents)
    ewe, packedgraph,   \* dopreduction: its flags
    sentno,         \* dopreduction: n, the number of the next tree
    fd, ntfd,       \* dopreduction: subtree counts and node frequencies
    rulecounts,     \* dopreduction: the dict 'rules', in insertion order
    packedgraphs,   \* the module-level cache of decorate_with_ids_mem
    packed_graph_ids,   \* the module-level counter of decorate_with_ids_mem
    utrees,         \* dopreduction: the decorated tree 'ut' of every turn
    runs,           \* how many calls of dopreduction this process has made
    fragments,      \* doubledop: the items of its argument, in iteration order
    fragno,         \* doubledop: how many fragments the loop has handled
    grammar,        \* doubledop: the dict, later the sorted list, 'grammar'
    backtransform,  \* doubledop: the dict 'backtransform'
    flattened,      \* doubledop: what flatten returned for the fragment at hand
    flat            \* doubledop: head production and template of every fragment

idvars == <<cnt, ids, calls>>
prodvars == <<tree, sent, todo, rules>>
dopvars == <<corpus, ewe, packedgraph, sentno, fd, ntfd, rulecounts, packedgraphs,
             packed_graph_ids, utrees, runs>>
ddvars == <<fragments, fragno, grammar, backtransform, flattened, flat>>
vars == <<mode, pc, result, prodvars, idvars, dopvars, ddvars>>

-----------------------------------------------------------------------------
(* Sequences and sets *)

Range(s) == {s[i] : i \in 1..Len(s)}

RECURSIVE Concat(_)
Concat(ss) == IF ss = <<>> THEN <<>> ELSE Head(ss) \o Concat(Tail(ss))

Min(S) == CHOOSE x \in S : \A y \in S : x <= y

RECURSIVE SetToSeq(_)
\* the integers of S in increasing order
SetToSeq(S) == IF S = {} THEN <<>> ELSE <<Min(S)>> \o SetToSeq(S \ {Min(S)})

\* 'sub in s' of Python, for strings as sequences of characters
Contains(s, sub) ==
    \E i \in 0..(Len(s) - Len(sub)) : \A j \in 1..Len(sub) : s[i + j] = sub[j]

Digits == <<"0", "1", "2", "3", "4", "5", "6", "7", "8", "9">>

RECURSIVE Dec(_)
\* "%d" % n for n >= 0
Dec(n) == IF n < 10 THEN <<Digits[n + 1]>> ELSE Dec(n \div 10) \o <<Digits[(n % 10) + 1]>>

\* the characters of the model in ASCII order: Python 2 compares str bytewise
AsciiOrder ==
    <<" ", "(", ")", "-", "0", "1", "2", "3", "4", "5", "6", "7", "8", "9", "<", ">",
      "@", "A", "B", "C", "D", "E", "F", "G", "H", "S", "[", "]", "_", "a", "b", "c", "i", "l",
      "n", "o", "p", "s", "{", "|", "}">>

Ord(c) == CHOOSE i \in 1..Len(AsciiOrder) : AsciiOrder[i] = c

RECURSIVE StrLess(_, _)
\* a < b for two strings
StrLess(a, b) ==
    IF b = <<>> THEN FALSE
    ELSE IF a = <<>> THEN TRUE
    ELSE IF Head(a) # Head(b) THEN Ord(Head(a)) < Ord(Head(b))
    ELSE StrLess(Tail(a), Tail(b))

-----------------------------------------------------------------------------
(* fractions.Fraction: exact rationals in lowest terms, denominator > 0 *)

Abs(x) == IF x < 0 THEN -x ELSE x

RECURSIVE GCD(_, _)
GCD(a, b) == IF b = 0 THEN a ELSE GCD(b, a % b)

\* Fraction(n, d) for integers n and d # 0
Fraction(n, d) ==
    LET g == GCD(Abs(n), Abs(d))
        sg == IF d < 0 THEN -1 ELSE 1
    IN [num |-> sg * (n \div g), den |-> sg * (d \div g)]

FracAdd(x, y) == Fraction(x.num * y.den + y.num * x.den, x.den * y.den)
FracDiv(x, y) == Fraction(x.num * y.den, x.den * y.num)
FracOfInt(n) == [num |-> n, den |-> 1]

RECURSIVE FracSum(_)
\* sum() of a sequence of fractions
FracSum(fs) == IF fs = <<>> THEN FracOfInt(0) ELSE FracAdd(Head(fs), FracSum(Tail(fs)))

-----------------------------------------------------------------------------
(* defaultdict(int) and dict: functions with a growing domain *)

\* d[key] of a defaultdict(int)
Lookup(d, key) == IF key \in DOMAIN d THEN d[key] ELSE 0

\* d[key] += v
Inc(d, key, v) ==
    [k \in DOMAIN d \cup {key} |-> Lookup(d, k) + (IF k = key THEN v ELSE 0)]

-----------------------------------------------------------------------------
(* Trees: Tree(label, children); a child is a Tree or a leaf.  A leaf is   *)
(* an integer index, or (malformed input) something that is no integer.    *)

T(label, ch) == [kind |-> "tree", label |-> label, ch |-> ch, idx |-> 0]
I(i) == [kind |-> "int", label |-> <<>>, ch |-> <<>>, idx |-> i]
NonInt == [kind |-> "str", label |-> <<>>, ch |-> <<>>, idx |-> 0]

isTree(a) == a.kind = "tree"
isInt(a) == a.kind = "int"

\* a position of a sentence without a token (a frontier leaf)
None == <<"None">>

RECURSIVE leaves(_)
\* Tree.leaves(): the leaves in left-to-right order
leaves(t) ==
    IF ~isTree(t) THEN <<t>>
    ELSE Concat([i \in 1..Len(t.ch) |-> leaves(t.ch[i])])

RECURSIVE subtreesPostOrder(_)
subtreesPostOrder(t) ==
    IF ~isTree(t) THEN <<>>
    ELSE Concat([i \in 1..Len(t.ch) |-> subtreesPostOrder(t.ch[i])]) \o <<t>>

RECURSIVE subtrees(_)
\* Tree.subtrees(): the tree nodes in pre-order
subtrees(t) ==
    IF ~isTree(t) THEN <<>>
    ELSE <<t>> \o Concat([i \in 1..Len(t.ch) |-> subtrees(t.ch[i])])

-----------------------------------------------------------------------------
(* Productions.  A rule (r, yf) of the code is [r, yf, w]: r the labels,   *)
(* yf the yield function of a non-lexical rule (a tuple of tuples of RHS   *)
(* positions, 0-based) and w the tuple (word,) that a lexical rule has in  *)
(* the place of the yield function.                                        *)

Epsilon == <<"E", "p", "s", "i", "l", "o", "n">>

Rule(r, yf, w) == [r |-> r, yf |-> yf, w |-> w]
NoRule == Rule(<<>>, <<>>, <<>>)

isLexical(rule) == Len(rule.r) >= 2 /\ rule.r[2] = Epsilon

leafchecksNoUnique(t, s) ==
    LET lv == leaves(t) IN
    /\ s # <<>>
    /\ \A i \in 1..Len(lv) : isInt(lv[i])
    /\ \A i \in 1..Len(lv) : 0 <= lv[i].idx /\ lv[i].idx < Len(s)

\* the four assertions on the leaves and the sentence, in the code's order
leafchecks(t, s) ==
    LET lv == leaves(t) IN
    /\ Cardinality(Range(lv)) = Len(lv)
    /\ s # <<>>
    /\ \A i \in 1..Len(lv) : isInt(lv[i])
    /\ \A i \in 1..Len(lv) : 0 <= lv[i].idx /\ lv[i].idx < Len(s)

\* [(idx, n) for n, child in enumerate(childleaves) for idx in child]
childpairs(st) ==
    Concat([n \in 1..Len(st.ch) |->
        LET lv == leaves(st.ch[n]) IN [k \in 1..Len(lv) |-> <<lv[k].idx, n - 1>>]])

RECURSIVE sortpairs(_)
\* the pairs by increasing index: the order in which leaves.pop() hands
\* them out after leaves.sort(key=itemgetter(0), reverse=True)
sortpairs(P) ==
    IF P = {} THEN <<>>
    ELSE LET m == CHOOSE p \in P : \A q \in P : p[1] <= q[1]
         IN <<m>> \o sortpairs(P \ {m})

yfstepNoBreak(yf, prev, cur) ==
    IF cur[2] # prev[2] THEN [yf EXCEPT ![Len(yf)] = Append(@, cur[2])]
    ELSE yf

yfstepBreakOnSwitch(yf, prev, cur) ==
    IF cur[1] # prev[1] + 1 THEN Append(yf, <<cur[2]>>)
    ELSE IF cur[2] # prev[2] THEN Append(yf, <<cur[2]>>)
    ELSE yf

\* one turn of the while loop over the sorted leaves
yfstep(yf, prev, cur) ==
    IF cur[1] # prev[1] + 1 THEN Append(yf, <<cur[2]>>)
    ELSE IF cur[2] # prev[2] THEN [yf EXCEPT ![Len(yf)] = Append(@, cur[2])]
    ELSE yf

RECURSIVE yfloop(_, _, _)
yfloop(yf, prev, rest) ==
    IF rest = <<>> THEN yf
    ELSE yfloop(yfstep(yf, prev, Head(rest)), Head(rest), Tail(rest))

\* the yield function of an internal node
yieldfunction(st) ==
    LET sorted == sortpairs(Range(childpairs(st)))
    IN yfloop(<<<<sorted[1][2]>>>>, sorted[1], Tail(sorted))

\* the body of the loop over tree.subtrees(), for one subtree st:
\* a rule, nothing (a frontier node), or the error raised
production(st, s, fr) ==
    IF st.ch = <<>> THEN [kind |-> "ValueError", rule |-> NoRule]
    ELSE IF isInt(st.ch[1]) THEN
        IF Len(st.ch) = 1 /\ s[st.ch[1].idx + 1] # None
        THEN [kind |-> "rule",
              rule |-> Rule(<<st.label, Epsilon>>, <<>>, <<s[st.ch[1].idx + 1]>>)]
        ELSE IF fr THEN [kind |-> "rule", rule |-> Rule(<<st.label>>, <<>>, <<>>)]
        ELSE [kind |-> "skip", rule |-> NoRule]
    ELSE IF \A i \in 1..Len(st.ch) : isTree(st.ch[i]) THEN
        IF childpairs(st) = <<>> THEN [kind |-> "IndexError", rule |-> NoRule]
        ELSE [kind |-> "rule",
              rule |-> Rule(<<st.label>> \o [i \in 1..Len(st.ch) |-> st.ch[i].label],
                            yieldfunction(st), <<>>)]
    ELSE [kind |-> "ValueError", rule |-> NoRule]

Returned(rs) == [err |-> "", rules |-> rs]
Raised(e) == [err |-> e, rules |-> <<>>]

RECURSIVE productionloop(_, _, _, _)
productionloop(sts, s, fr, acc) ==
    IF sts = <<>> THEN Returned(acc)
    ELSE LET p == production(Head(sts), s, fr) IN
         IF p.kind = "rule" THEN productionloop(Tail(sts), s, fr, Append(acc, p.rule))
         ELSE IF p.kind = "skip" THEN productionloop(Tail(sts), s, fr, acc)
         ELSE Raised(p.kind)

\* lcfrs_productions(tree, sent, frontiers) as one call
lcfrs_productions(t, s, fr) ==
    IF ~leafchecks(t, s) THEN Raised("AssertionError")
    ELSE productionloop(subtrees(t), s, fr, <<>>)

-----------------------------------------------------------------------------
(* Inputs: the trees with exactly k nodes over the leaf indices S.  A node *)
(* holds all its indices itself (a preterminal, or a frontier node with    *)
(* several indices), or has one or two subtrees that share the indices.    *)

Words == {<<"a">>, <<"b">>}
Letters == <<"A", "B", "C", "D", "E", "F", "G", "H">>

\* the labels a node over the indices S may carry: any label of L, or,
\* when L is empty, the one letter that names the node's smallest index
LabelsFor(L, S) == IF L = {} THEN {<<Letters[Min(S) + 1]>>} ELSE L

RECURSIVE Gen(_, _, _)
Gen(k, S, L) ==
    IF k < 1 \/ S = {} THEN {}
    ELSE
      (IF k = 1
       THEN {T(l, [i \in 1..Cardinality(S) |-> I(SetToSeq(S)[i])]) : l \in LabelsFor(L, S)}
       ELSE {})
      \cup {T(l, <<c>>) : l \in LabelsFor(L, S), c \in Gen(k - 1, S, L)}
      \cup UNION {UNION {{T(l, <<c1, c2>>) :
                              l \in LabelsFor(L, S),
                              c1 \in Gen(k1, S1, L), c2 \in Gen(k - 1 - k1, S \ S1, L)}
                         : S1 \in (SUBSET S) \ {{}, S}}
                  : k1 \in 1..(k - 2)}

\* the malformed inputs: one leaf i of a well-formed tree is damaged
RECURSIVE damage(_, _, _)
damage(t, i, how) ==
    IF isInt(t) THEN
        IF t.idx # i THEN t
        ELSE IF how = "nonint" THEN NonInt
        ELSE IF how = "negative" THEN I(-1)
        ELSE IF how = "range" THEN I(i + 100)
        ELSE IF how = "dup" THEN I(IF i = 0 THEN 1 ELSE i - 1)
        ELSE t
    ELSE IF ~isTree(t) THEN t
    ELSE IF how = "empty" /\ \E j \in 1..Len(t.ch) : t.ch[j] = I(i) THEN T(t.label, <<>>)
    ELSE T(t.label, [j \in 1..Len(t.ch) |-> damage(t.ch[j], i, how)])

Damages == {"none", "nonint", "negative", "range", "dup", "empty", "nosent"}

-----------------------------------------------------------------------------
(* lcfrs_productions, one subtree per step *)

ProdMaxNodes == 4
MaxSent == 3

\* the parts of the state that a behaviour of another entry point leaves alone
IdsIdle == cnt = 0 /\ ids = <<>> /\ calls = <<>>

ProdIdle == tree = T(<<>>, <<>>) /\ sent = <<>> /\ todo = <<>> /\ rules = <<>>

\* nothing flattened yet
NoProds == [err |-> "", prods |-> <<>>, frag |-> <<>>]

DDIdle ==
    /\ fragments = <<>> /\ fragno = 0 /\ grammar = <<>> /\ backtransform = <<>>
    /\ flattened = NoProds /\ flat = <<>>

DopIdle ==
    /\ corpus = <<>> /\ ewe = FALSE /\ packedgraph = FALSE /\ sentno = 0
    /\ fd = <<>> /\ ntfd = <<>> /\ rulecounts = <<>>
    /\ packedgraphs = <<>> /\ packed_graph_ids = 0
    /\ utrees = <<>> /\ runs = 0

InitProd ==
    /\ mode = "lcfrs_productions"
    /\ pc = "start"
    /\ \E m \in 1..MaxSent, k \in 1..ProdMaxNodes, how \in Damages :
         \E t \in Gen(k, 0..(m - 1), {}), i \in 0..(m - 1) :
            /\ tree = damage(t, i, how)
            /\ i # 0 => how # "none" /\ how # "nosent"
            /\ sent \in IF how = "nosent" THEN {<<>>}
                        ELSE IF how = "none" THEN [1..m -> {<<"a">>, None}]
                        ELSE {[j \in 1..m |-> <<"a">>]}
    /\ todo = <<>>
    /\ rules = <<>>
    /\ result = Returned(<<>>)
    /\ IdsIdle /\ DopIdle /\ DDIdle

\* lines 83-93: the assertions fail
ProdAssertFail ==
    /\ mode = "lcfrs_productions" /\ pc = "start"
    /\ ~leafchecks(tree, sent)
    /\ pc' = "raised"
    /\ result' = Raised("AssertionError")
    /\ UNCHANGED <<mode, tree, sent, todo, rules, idvars, dopvars, ddvars>>

\* lines 83-95: the assertions hold, the loop starts
ProdEnter ==
    /\ mode = "lcfrs_productions" /\ pc = "start"
    /\ leafchecks(tree, sent)
    /\ pc' = "loop"
    /\ todo' = subtrees(tree)
    /\ rules' = <<>>
    /\ UNCHANGED <<mode, tree, sent, result, idvars, dopvars, ddvars>>

\* lines 95-137: one subtree that gives a rule
ProdRule ==
    /\ mode = "lcfrs_productions" /\ pc = "loop" /\ todo # <<>>
    /\ LET p == production(Head(todo), sent, FALSE) IN
        /\ p.kind = "rule"
        /\ rules' = Append(rules, p.rule)
    /\ todo' = Tail(todo)
    /\ UNCHANGED <<mode, pc, tree, sent, result, idvars, dopvars, ddvars>>

\* lines 105-108: a frontier node: continue
ProdSkip ==
    /\ mode = "lcfrs_productions" /\ pc = "loop" /\ todo # <<>>
    /\ production(Head(todo), sent, FALSE).kind = "skip"
    /\ todo' = Tail(todo)
    /\ UNCHANGED <<mode, pc, tree, sent, rules, result, idvars, dopvars, ddvars>>

\* lines 96-99, 122, 134-136: the subtree raises; the rules built are dropped
ProdRaise ==
    /\ mode = "lcfrs_productions" /\ pc = "loop" /\ todo # <<>>
    /\ LET p == production(Head(todo), sent, FALSE) IN
        /\ p.kind \notin {"rule", "skip"}
        /\ result' = Raised(p.kind)
    /\ pc' = "raised"
    /\ UNCHANGED <<mode, tree, sent, todo, rules, idvars, dopvars, ddvars>>

\* line 138: return rules
ProdReturn ==
    /\ mode = "lcfrs_productions" /\ pc = "loop" /\ todo = <<>>
    /\ result' = Returned(rules)
    /\ pc' = "done"
    /\ UNCHANGED <<mode, tree, sent, todo, rules, idvars, dopvars, ddvars>>

NextProd == ProdAssertFail \/ ProdEnter \/ ProdRule \/ ProdSkip \/ ProdRaise \/ ProdReturn

SpecProd == InitProd /\ [][NextProd]_vars

-----------------------------------------------------------------------------
(* Claims on lcfrs_productions *)

\* the nodes that give a rule, in pre-order, by the claim's three cases
RECURSIVE C2_Expected(_, _)
C2_Expected(t, s) ==
    LET below == Concat([i \in 1..Len(t.ch) |->
                    IF isTree(t.ch[i]) THEN C2_Expected(t.ch[i], s) ELSE <<>>])
        here ==
            IF \A i \in 1..Len(t.ch) : isTree(t.ch[i])
            THEN <<[r |-> <<t.label>> \o [i \in 1..Len(t.ch) |-> t.ch[i].label],
                    w |-> <<>>, lex |-> FALSE]>>
            ELSE IF Len(t.ch) = 1 /\ s[t.ch[1].idx + 1] # None
            THEN <<[r |-> <<t.label, Epsilon>>, w |-> <<s[t.ch[1].idx + 1]>>, lex |-> TRUE]>>
            ELSE <<>>
    IN here \o below

\* C2: with frontiers=False a valid tree gives exactly one production per
\* node, in pre-order and never sorted, leaving out only the frontier nodes:
\* a lexical rule for a single index with a word, (label, child labels) with
\* a yield function for a node of trees, nothing for several indices or None.
C2_PreorderProductions ==
    (mode = "lcfrs_productions" /\ pc = "done") =>
        result.rules = [i \in 1..Len(C2_Expected(tree, sent)) |->
            LET e == C2_Expected(tree, sent)[i] IN
            Rule(e.r, IF e.lex THEN <<>> ELSE result.rules[i].yf, e.w)]
        /\ \A i \in 1..Len(result.rules) :
              isLexical(result.rules[i]) <=> result.rules[i].yf = <<>>

\* a run that returned: a frontier node was left out, a nested node came
\* before its right sibling, lexical and non-lexical rules are mixed
C2_Witness ==
    /\ mode = "lcfrs_productions" /\ pc = "done"
    /\ Len(result.rules) = 3
    /\ Len(subtrees(tree)) = 4
    /\ ~isLexical(result.rules[1]) /\ Len(result.rules[1].r) = 3
    /\ ~isLexical(result.rules[2])
    /\ isLexical(result.rules[3])

RECURSIVE RangesOf(_)
\* the maximal contiguous ranges <<lo, hi>> of a set of integers, increasing
RangesOf(S) ==
    IF S = {} THEN <<>>
    ELSE LET lo == Min(S)
             hi == CHOOSE h \in S : /\ \A x \in lo..h : x \in S
                                   /\ h + 1 \notin S
                                   /\ h >= lo
         IN <<<<lo, hi>>>> \o RangesOf(S \ (lo..hi))

leafset(t) == {leaves(t)[i].idx : i \in 1..Len(leaves(t))}

\* how often k occurs in yf before position j of component c
OccBefore(yf, c, j) ==
    Cardinality({<<c2, j2>> \in (1..Len(yf)) \X (1..Len(yf[c])+Len(Concat(yf))) :
        /\ j2 <= Len(yf[c2])
        /\ (c2 < c \/ (c2 = c /\ j2 < j))
        /\ yf[c2][j2] = yf[c][j]})

SpanRoundTrip(st, yf) ==
    LET kidranges == [k \in 1..Len(st.ch) |-> RangesOf(leafset(st.ch[k]))]
        piece(c, j) == kidranges[yf[c][j] + 1][OccBefore(yf, c, j) + 1]
    IN
    /\ \A c \in 1..Len(yf) : \A j \in 1..Len(yf[c]) :
          /\ yf[c][j] \in 0..(Len(st.ch) - 1)
          /\ OccBefore(yf, c, j) < Len(kidranges[yf[c][j] + 1])
    /\ \A k \in 1..Len(st.ch) :
          Cardinality({<<c, j>> \in (1..Len(yf)) \X (1..Len(Concat(yf))) :
                          j <= Len(yf[c]) /\ yf[c][j] = k - 1}) = Len(kidranges[k])
    /\ \A c \in 1..Len(yf) :
          /\ yf[c] # <<>>
          /\ \A j \in 1..(Len(yf[c]) - 1) : piece(c, j + 1)[1] = piece(c, j)[2] + 1
    /\ Len(yf) = Len(RangesOf(leafset(st)))
    /\ \A c \in 1..Len(yf) :
          <<piece(c, 1)[1], piece(c, Len(yf[c]))[2]>> = RangesOf(leafset(st))[c]

\* the nodes of t that give a rule, in the order of the rules
RuleNodes(t, s) == SelectSeq(subtrees(t), LAMBDA st : production(st, s, FALSE).kind = "rule")

\* C3: span round trip: reading the yield function of every internal node
\* left to right, each occurrence of child k consuming the next contiguous
\* range of child k, every component is one contiguous range, the components
\* are the maximal ranges of the node's leaves, and every range of every
\* child is consumed exactly once.
C3_SpanRoundTrip ==
    (mode = "lcfrs_productions" /\ pc = "done") =>
        /\ Len(result.rules) = Len(RuleNodes(tree, sent))
        /\ \A i \in 1..Len(result.rules) :
              ~isLexical(result.rules[i]) =>
                  SpanRoundTrip(RuleNodes(tree, sent)[i], result.rules[i].yf)

\* a discontinuous node: a child with two ranges around its sibling
C3_Witness ==
    /\ mode = "lcfrs_productions" /\ pc = "done"
    /\ \E i \in 1..Len(result.rules) :
          /\ result.rules[i].yf = <<<<0, 1, 0>>>>
          /\ Len(RangesOf(leafset(RuleNodes(tree, sent)[i].ch[1]))) = 2

\* the malformed inputs the claim lists
C9_BadLeaves(t, s) ==
    LET lv == leaves(t) IN
    \/ \E i, j \in 1..Len(lv) : i # j /\ lv[i] = lv[j]
    \/ \E i \in 1..Len(lv) : ~isInt(lv[i])
    \/ \E i \in 1..Len(lv) : isInt(lv[i]) /\ lv[i].idx \notin 0..(Len(s) - 1)
    \/ s = <<>>

C9_EmptyNode(t) == \E i \in 1..Len(subtrees(t)) : subtrees(t)[i].ch = <<>>

\* C9: lcfrs_productions fails with an error and returns no productions on
\* non-unique, non-integer or out-of-range leaves, an empty sentence or a
\* node without children; the leaf checks come before any production is
\* built, and no partial rule list is returned.
C9_MalformedFails ==
    mode = "lcfrs_productions" =>
        /\ (C9_BadLeaves(tree, sent) \/ C9_EmptyNode(tree)) => pc # "done"
        /\ C9_BadLeaves(tree, sent) => (pc # "loop" /\ rules = <<>>)
        /\ pc = "raised" => (result.err # "" /\ result.rules = <<>>)
        /\ pc \in {"start", "loop"} => result = Returned(<<>>)

\* an empty node met after rules were built: the rules are not returned
C9_Witness ==
    /\ mode = "lcfrs_productions" /\ pc = "raised"
    /\ C9_EmptyNode(tree) /\ ~C9_BadLeaves(tree, sent)
    /\ rules # <<>> /\ result.rules = <<>> /\ result.err = "ValueError"

-----------------------------------------------------------------------------
(* UniqueIDs *)

MaxCalls == 5
Keys == {"foo", "bar", "baz"}

\* what dict.get returns for a missing key
NoneVal == -1

get(d, key) == IF key \in DOMAIN d THEN d[key] ELSE NoneVal

isFalsy(val) == val = NoneVal \/ val = 0

\* 'val is None'
isNone(val) == val = NoneVal

\* UniqueIDs(): __init__
InitIds ==
    /\ mode = "UniqueIDs"
    /\ pc = "idle"
    /\ cnt = 0
    /\ ids = <<>>
    /\ calls = <<>>
    /\ result = Returned(<<>>)
    /\ ProdIdle /\ DopIdle /\ DDIdle

\* ids[key]: __getitem__, a key not seen before
UniqueIDs_getitem_new(key) ==
    /\ mode = "UniqueIDs" /\ Len(calls) < MaxCalls
    /\ isNone(get(ids, key))
    /\ ids' = [k \in DOMAIN ids \cup {key} |-> IF k = key THEN cnt ELSE ids[k]]
    /\ cnt' = cnt + 1
    /\ calls' = Append(calls, [op |-> "getitem", key |-> key, val |-> cnt])
    /\ UNCHANGED <<mode, pc, result, prodvars, dopvars, ddvars>>

\* ids[key]: __getitem__, a key seen before
UniqueIDs_getitem_seen(key) ==
    /\ mode = "UniqueIDs" /\ Len(calls) < MaxCalls
    /\ ~isNone(get(ids, key))
    /\ calls' = Append(calls, [op |-> "getitem", key |-> key, val |-> get(ids, key)])
    /\ UNCHANGED <<mode, pc, result, prodvars, dopvars, ddvars, cnt, ids>>

\* next(ids): __next__
UniqueIDs_next ==
    /\ mode = "UniqueIDs" /\ Len(calls) < MaxCalls
    /\ cnt' = cnt + 1
    /\ calls' = Append(calls, [op |-> "next", key |-> "", val |-> cnt' - 1])
    /\ UNCHANGED <<mode, pc, result, prodvars, dopvars, ddvars, ids>>

NextIds ==
    \/ \E key \in Keys : UniqueIDs_getitem_new(key)
    \/ \E key \in Keys : UniqueIDs_getitem_seen(key)
    \/ UniqueIDs_next

SpecIds == InitIds /\ [][NextIds]_vars

\* C10: every value returned is the value of the first lookup of the same
\* key, or the next unused integer, never returned before by any operation;
\* so a key keeps its ID, distinct keys have distinct IDs, next() repeats
\* nothing and returns no key's ID, and the IDs handed out are 0..cnt-1.
C10_UniqueIDs ==
    mode = "UniqueIDs" =>
        /\ \A i \in 1..Len(calls) :
              LET before == {calls[j].val : j \in 1..(i - 1)}
                  same == {j \in 1..(i - 1) :
                              calls[j].op = "getitem" /\ calls[i].op = "getitem"
                              /\ calls[j].key = calls[i].key}
              IN IF same # {} THEN calls[i].val = calls[Min(same)].val
                 ELSE calls[i].val \notin before /\ calls[i].val = Cardinality(before)
        /\ {calls[i].val : i \in 1..Len(calls)} = 0..(cnt - 1)
        /\ \A k1, k2 \in DOMAIN ids : k1 # k2 => ids[k1] # ids[k2]
        /\ \A i \in 1..Len(calls) :
              calls[i].op = "next" => \A k \in DOMAIN ids : ids[k] # calls[i].val

\* the key that holds ID 0 recurs after next() and another key were served
C10_Witness ==
    /\ mode = "UniqueIDs" /\ Len(calls) >= 4
    /\ calls[1].op = "getitem" /\ calls[1].val = 0
    /\ \E i, j \in 2..Len(calls) :
          /\ i < j
          /\ calls[i].op = "next"
          /\ calls[j].op = "getitem" /\ calls[j].key = calls[1].key /\ calls[j].val = 0
    /\ Cardinality(DOMAIN ids) >= 2

-----------------------------------------------------------------------------
(* DOP reduction: decoration *)

At == <<"@">>

idlabelNoSent(label, sentid, i) == label \o At \o Dec(i)

\* "%s@%d-%d" % (label, n, ids)
idlabel(label, sentid, i) == label \o At \o Dec(sentid) \o <<"-">> \o Dec(i)

RECURSIVE decoratenode(_, _, _), decoratekids(_, _, _)
\* one turn of the loop of decorate_with_ids for the subtree t and all the
\* subtrees below it (pre-order), starting at ID i: [t, next]
decoratenode(t, sentid, i) ==
    IF ~isTree(t) THEN [t |-> t, next |-> i]
    ELSE LET below == decoratekids(t.ch, sentid, i + 1)
         IN [t |-> T(idlabel(t.label, sentid, i), below.ch), next |-> below.next]

decoratekids(ch, sentid, i) ==
    IF ch = <<>> THEN [ch |-> <<>>, next |-> i]
    ELSE LET first == decoratenode(Head(ch), sentid, i)
             rest == decoratekids(Tail(ch), sentid, first.next)
         IN [ch |-> <<first.t>> \o rest.ch, next |-> rest.next]

\* decorate_with_ids(n, tree, _): the top node gets no ID
decorate_with_ids(sentid, t) == T(t.label, decoratekids(t.ch, sentid, 0).ch)

RECURSIVE Str(_)
\* str(tree): the bracketed text of a tree
Str(t) ==
    IF isInt(t) THEN Dec(t.idx)
    ELSE <<"(">> \o t.label
         \o Concat([i \in 1..Len(t.ch) |-> <<" ">> \o Str(t.ch[i])]) \o <<")">>

RECURSIVE hashkeyByIndex(_, _)
hashkeyByIndex(t, s) ==
    [label |-> t.label,
     kids |-> [i \in 1..Len(t.ch) |->
                 IF isTree(t.ch[i]) THEN hashkeyByIndex(t.ch[i], s)
                 ELSE [label |-> Dec(t.ch[i].idx), kids |-> <<>>]]]

RECURSIVE hashkey(_, _)
\* DiscTree.__hash__: the label, and for every child its hash or its word
hashkey(t, s) ==
    [label |-> t.label,
     kids |-> [i \in 1..Len(t.ch) |->
                 IF isTree(t.ch[i]) THEN hashkey(t.ch[i], s)
                 ELSE [label |-> s[t.ch[i].idx + 1], kids |-> <<>>]]]

RECURSIVE eqtree(_, _, _, _), eqkids(_, _, _, _, _)
\* eqtree(tree1, sent1, tree2, sent2)
eqtree(t1, s1, t2, s2) ==
    IF t1.label # t2.label \/ Len(t1.ch) # Len(t2.ch) THEN FALSE
    ELSE eqkids(t1, s1, t2, s2, 1)

\* the loop of eqtree from child i on: a leaf child decides at once
eqkids(t1, s1, t2, s2, i) ==
    IF i > Len(t1.ch) THEN TRUE
    ELSE LET a == t1.ch[i]
             b == t2.ch[i]
         IN IF isTree(a) # isTree(b) THEN FALSE
            ELSE IF isTree(a)
                 THEN IF ~eqtree(a, s1, b, s2) THEN FALSE
                      ELSE eqkids(t1, s1, t2, s2, i + 1)
            ELSE s1[a.idx + 1] = s2[b.idx + 1]

\* the entries of the dict packedgraphs that the key (t, s) finds:
\* equal hash and __eq__
cachehits(cache, t, s) ==
    {i \in 1..Len(cache) :
        /\ hashkey(cache[i].t, cache[i].s) = hashkey(t, s)
        /\ eqtree(t, s, cache[i].t, cache[i].s)}

copywithindices(t1, t2) == t2

RECURSIVE copyexceptindices(_, _)
\* copyexceptindices(tree1, tree2): labels of tree2, indices of tree1
copyexceptindices(t1, t2) ==
    IF ~isTree(t1) THEN t1
    ELSE T(t2.label, [i \in 1..Len(t1.ch) |-> copyexceptindices(t1.ch[i], t2.ch[i])])

\* lines 401-404: the new decorated node is stored under its key
storenew(t, s, sentid, i, below) ==
    LET new == T(idlabel(Str(t), sentid, i), below.ch)
    IN [t |-> new,
        cache |-> Append(below.cache, [t |-> t, s |-> s, val |-> new]),
        ids |-> below.ids]

joinkids(first, rest) ==
    [ch |-> <<first.t>> \o rest.ch, cache |-> rest.cache, ids |-> rest.ids]

RECURSIVE recursive_decorate(_, _, _, _, _), recursive_kids(_, _, _, _, _),
          kidsafter(_, _, _, _)
\* recursive_decorate(tree) with the cache and the counter it reads and
\* writes: [t, cache, ids]
recursive_decorate(t, s, sentid, cache, i) ==
    IF ~isTree(t) THEN [t |-> t, cache |-> cache, ids |-> i]
    ELSE IF cachehits(cache, t, s) = {}
    THEN storenew(t, s, sentid, i + 1, recursive_kids(t.ch, s, sentid, cache, i + 1))
    ELSE [t |-> copyexceptindices(t, cache[Min(cachehits(cache, t, s))].val),
          cache |-> cache, ids |-> i]

\* [recursive_decorate(child) for child in tree]
recursive_kids(ch, s, sentid, cache, i) ==
    IF ch = <<>> THEN [ch |-> <<>>, cache |-> cache, ids |-> i]
    ELSE kidsafter(recursive_decorate(Head(ch), s, sentid, cache, i), ch, s, sentid)

kidsafter(first, ch, s, sentid) ==
    joinkids(first, recursive_kids(Tail(ch), s, sentid, first.cache, first.ids))

\* decorate_with_ids_mem(n, tree, sent): the counter restarts at 0, the
\* top node gets no ID: [t, cache, ids]
decorate_with_ids_mem(sentid, t, s, cache) ==
    LET below == recursive_kids(t.ch, s, sentid, cache, 0)
    IN [t |-> T(t.label, below.ch), cache |-> below.cache, ids |-> below.ids]

-----------------------------------------------------------------------------
(* DOP reduction: counting *)

hasidAlways(t, ut) == TRUE

\* utree.label != tree.label: the node got an ID (it is not the root)
hasid(t, ut) == ut.label # t.label

RECURSIVE nodefreq(_, _, _, _), nodefreqkids(_, _, _, _, _)
RECURSIVE nodefreqkidsNoPlusOne(_, _, _, _, _)
nodefreqkidsNoPlusOne(ch, uch, subtreefd, nonterminalfd, acc) ==
    IF ch = <<>> \/ uch = <<>> THEN [n |-> acc, fd |-> subtreefd, ntfd |-> nonterminalfd]
    ELSE LET first == nodefreq(Head(ch), Head(uch), subtreefd, nonterminalfd)
         IN nodefreqkidsNoPlusOne(Tail(ch), Tail(uch), first.fd, first.ntfd, acc * first.n)

\* nodefreq(tree, utree, subtreefd, nonterminalfd): [n, fd, ntfd]
nodefreq(t, ut, subtreefd, nonterminalfd) ==
    LET nt1 == Inc(Inc(nonterminalfd, t.label, 1), ut.label, 1)
        below == IF isTree(t.ch[1])
                 THEN nodefreqkids(t.ch, ut.ch, subtreefd, nt1, 1)
                 ELSE [n |-> 1, fd |-> subtreefd, ntfd |-> nt1]
        fd1 == Inc(below.fd, t.label, below.n)
        fd2 == IF hasid(t, ut) THEN Inc(fd1, ut.label, below.n) ELSE fd1
    IN [n |-> below.n, fd |-> fd2, ntfd |-> below.ntfd]

\* reduce(mul, (nodefreq(x, ux, ...) + 1 for x, ux in zip(tree, utree)))
nodefreqkids(ch, uch, subtreefd, nonterminalfd, acc) ==
    IF ch = <<>> \/ uch = <<>> THEN [n |-> acc, fd |-> subtreefd, ntfd |-> nonterminalfd]
    ELSE LET first == nodefreq(Head(ch), Head(uch), subtreefd, nonterminalfd)
         IN nodefreqkids(Tail(ch), Tail(uch), first.fd, first.ntfd, acc * (first.n + 1))

RECURSIVE cartpi(_)
\* cartpi(seq): the cartesian product, the last position varying fastest
cartpi(seq) ==
    IF seq = <<>> THEN <<<<>>>>
    ELSE LET front == cartpi(SubSeq(seq, 1, Len(seq) - 1))
             last == seq[Len(seq)]
         IN Concat([b \in 1..Len(front) |->
                [a \in 1..Len(last) |-> Append(front[b], last[a])]])

variantsPlainLhs(a, b) ==
    [i \in 1..(IF Len(a) < Len(b) THEN Len(a) ELSE Len(b)) |->
        IF a[i] = b[i] \/ i = 1 THEN <<a[i]>> ELSE <<a[i], b[i]>>]

\* [(x, ) if x == y else (x, y) for x, y in zip(a, b)]
variants(a, b) ==
    [i \in 1..(IF Len(a) < Len(b) THEN Len(a) ELSE Len(b)) |->
        IF a[i] = b[i] THEN <<a[i]>> ELSE <<a[i], b[i]>>]

\* rules[key] += 1 on a dict kept in insertion order
CountRule(d, key) ==
    IF \E i \in 1..Len(d) : d[i].rule = key
    THEN [i \in 1..Len(d) |->
            IF d[i].rule = key THEN [d[i] EXCEPT !.freq = @ + 1] ELSE d[i]]
    ELSE Append(d, [rule |-> key, freq |-> 1])

RECURSIVE CountRules(_, _)
CountRules(d, keys) ==
    IF keys = <<>> THEN d ELSE CountRules(CountRule(d, Head(keys)), Tail(keys))

\* the inner loops of lines 178-181 for one pair of production lists
RECURSIVE collectpairs(_, _, _)
collectpairs(d, prods, uprods) ==
    IF prods = <<>> \/ uprods = <<>> THEN d
    ELSE LET a == Head(prods)
             b == Head(uprods)
             cs == cartpi(variants(a.r, b.r))
         IN collectpairs(CountRules(d, [i \in 1..Len(cs) |-> Rule(cs[i], a.yf, a.w)]),
                         Tail(prods), Tail(uprods))

\* assert avar == bvar, for every pair
samevars(prods, uprods) ==
    \A i \in 1..(IF Len(prods) < Len(uprods) THEN Len(prods) ELSE Len(uprods)) :
        prods[i].yf = uprods[i].yf /\ prods[i].w = uprods[i].w

-----------------------------------------------------------------------------
(* DOP reduction: the estimators and the run *)

isdecorated(z) == Contains(z, At)

RECURSIVE fdproduct(_, _)
\* reduce(mul, (fd[z] for z in r[1:] if '@' in z), 1), for labels = r[1:]
fdproduct(labels, subtreefd) ==
    IF labels = <<>> THEN 1
    ELSE (IF isdecorated(Head(labels)) THEN Lookup(subtreefd, Head(labels)) ELSE 1)
         * fdproduct(Tail(labels), subtreefd)

\* rfe(rule): relative frequency estimate
rfe(r, freq, subtreefd) ==
    Fraction((IF \E i \in 1..Len(r) : isdecorated(r[i]) THEN 1 ELSE freq)
                * fdproduct(Tail(r), subtreefd),
             Lookup(subtreefd, r[1]))

\* bodewe(rule): equal weights estimate
bodewe(r, freq, subtreefd, nonterminalfd) ==
    Fraction((IF isdecorated(r[1]) THEN 1 ELSE freq) * fdproduct(Tail(r), subtreefd),
             Lookup(subtreefd, r[1])
                * (IF ~isdecorated(r[1]) THEN Lookup(nonterminalfd, r[1]) ELSE 1))

\* the sort key of line 201-202: False, or the word of a lexical rule;
\* False sorts before every str (Python 2)
wordkeyless(x, y) ==
    \/ ~isLexical(x) /\ isLexical(y)
    \/ isLexical(x) /\ isLexical(y) /\ StrLess(x.w[1], y.w[1])

RECURSIVE stableinsert(_, _)
\* x goes behind the last element that is not greater than x
stableinsert(sorted, x) ==
    IF sorted = <<>> THEN <<x>>
    ELSE IF wordkeyless(x.rule, sorted[Len(sorted)].rule)
    THEN Append(stableinsert(SubSeq(sorted, 1, Len(sorted) - 1), x), sorted[Len(sorted)])
    ELSE Append(sorted, x)

RECURSIVE sortedbyword(_)
\* sorted(rules.items(), key=...): a stable sort of the dict's items
sortedbyword(items) ==
    IF items = <<>> THEN <<>>
    ELSE stableinsert(sortedbyword(SubSeq(items, 1, Len(items) - 1)), items[Len(items)])

MaxTrees == 2
DopMaxNodes == 4
DopMaxLeaves == 2

\* the sentences of m positions: one word throughout, or one position
\* without a token
DopSents(m) ==
    {[j \in 1..m |-> w] : w \in Words} \cup (IF m = 1 THEN {<<None>>} ELSE {})

\* a tree of k nodes with its sentence
DopItems(k) ==
    UNION {{[t |-> t, s |-> s] : t \in Gen(k, 0..(m - 1), {}), s \in DopSents(m)}
           : m \in 1..DopMaxLeaves}

\* a malformed pair: the leaf points behind the sentence
BadItems == {[t |-> T(<<"A">>, <<I(1)>>), s |-> <<<<"a">>>>]}

RECURSIVE Corpora(_, _)
\* the corpora of at most j trees with at most b nodes altogether
Corpora(j, b) ==
    IF j = 0 \/ b = 0 THEN {<<>>}
    ELSE {<<>>} \cup UNION {UNION {{<<x>> \o c : c \in Corpora(j - 1, b - k)}
                                   : x \in DopItems(k) \cup (IF k = 1 THEN BadItems ELSE {})}
                            : k \in 1..b}

InitDop ==
    /\ mode = "dopreduction"
    /\ pc = "collect"
    /\ corpus \in Corpora(MaxTrees, DopMaxNodes)
    /\ ewe \in BOOLEAN
    /\ packedgraph \in BOOLEAN
    /\ sentno = 0
    /\ fd = <<>> /\ ntfd = <<>> /\ rulecounts = <<>>
    /\ packedgraphs = <<>> /\ packed_graph_ids = 0
    /\ utrees = <<>> /\ runs = 1
    /\ result = Returned(<<>>)
    /\ ProdIdle /\ IdsIdle /\ DDIdle

\* lines 174-176 for the tree at hand: [err, prods, uprods, ut, cache, ids]
decorated(item) ==
    LET prods == lcfrs_productions(item.t, item.s, FALSE)
        mem == decorate_with_ids_mem(sentno, item.t, item.s, packedgraphs)
        ut == IF packedgraph THEN mem.t ELSE decorate_with_ids(sentno, item.t)
        uprods == IF prods.err # "" THEN prods ELSE lcfrs_productions(ut, item.s, FALSE)
    IN [err |-> IF prods.err # "" THEN prods.err
                ELSE IF uprods.err # "" THEN uprods.err
                ELSE IF ~samevars(prods.rules, uprods.rules) THEN "AssertionError"
                ELSE "",
        prods |-> prods.rules, uprods |-> uprods.rules, ut |-> ut,
        cache |-> IF packedgraph /\ prods.err = "" THEN mem.cache ELSE packedgraphs,
        ids |-> IF packedgraph /\ prods.err = "" THEN mem.ids ELSE packed_graph_ids]

\* lines 173-181: one turn of the loop over the corpus
DopCollect ==
    /\ mode = "dopreduction" /\ pc = "collect" /\ sentno < Len(corpus)
    /\ LET item == corpus[sentno + 1]
           d == decorated(item)
           nf == nodefreq(item.t, d.ut, fd, ntfd)
       IN /\ d.err = ""
          /\ fd' = nf.fd
          /\ ntfd' = nf.ntfd
          /\ rulecounts' = collectpairs(rulecounts, d.prods, d.uprods)
          /\ packedgraphs' = d.cache
          /\ packed_graph_ids' = d.ids
          /\ utrees' = Append(utrees, d.ut)
    /\ sentno' = sentno + 1
    /\ UNCHANGED <<mode, pc, result, corpus, ewe, packedgraph, runs, prodvars, idvars,
                   ddvars>>

\* lines 174-179: the tree at hand raises; nothing clears the cache
DopRaise ==
    /\ mode = "dopreduction" /\ pc = "collect" /\ sentno < Len(corpus)
    /\ LET d == decorated(corpus[sentno + 1])
       IN /\ d.err # ""
          /\ result' = Raised(d.err)
          /\ packedgraphs' = d.cache
          /\ packed_graph_ids' = d.ids
    /\ pc' = "raised"
    /\ UNCHANGED <<mode, corpus, ewe, packedgraph, sentno, fd, ntfd, rulecounts,
                   utrees, runs, prodvars, idvars, ddvars>>

\* lines 183-205: clear the cache, sort, estimate, return
DopEstimate ==
    /\ mode = "dopreduction" /\ pc = "collect" /\ sentno = Len(corpus)
    /\ packedgraphs' = IF packedgraph THEN <<>> ELSE packedgraphs
    /\ LET sorted == sortedbyword(rulecounts)
       IN result' = Returned([i \in 1..Len(sorted) |->
            [rule |-> sorted[i].rule,
             w |-> IF ewe THEN bodewe(sorted[i].rule.r, sorted[i].freq, fd, ntfd)
                   ELSE rfe(sorted[i].rule.r, sorted[i].freq, fd)]])
    /\ pc' = "done"
    /\ UNCHANGED <<mode, corpus, ewe, packedgraph, sentno, fd, ntfd, rulecounts,
                   packed_graph_ids, utrees, runs, prodvars, idvars, ddvars>>

NextDop == DopCollect \/ DopRaise \/ DopEstimate

SpecDop == InitDop /\ [][NextDop]_vars

-----------------------------------------------------------------------------
(* DOP reduction: normalisation of the weights *)

\* the LHS labels of a returned grammar
LhsOf(g) == {g[i].rule.r[1] : i \in 1..Len(g)}

\* the sum of the weights of the rules of g with the LHS lhs
WeightSum(g, lhs) ==
    LET at == SetToSeq({i \in 1..Len(g) : g[i].rule.r[1] = lhs})
    IN FracSum([k \in 1..Len(at) |-> g[at[k]].w])

Normalised(g) == \A lhs \in LhsOf(g) : WeightSum(g, lhs) = FracOfInt(1)

\* every leaf-bearing node is a preterminal over one word that is a token
Preterminals(item) ==
    \A st \in Range(subtrees(item.t)) :
        isInt(st.ch[1]) => Len(st.ch) = 1 /\ item.s[st.ch[1].idx + 1] # None

DopReturned(e, p) ==
    /\ mode = "dopreduction" /\ pc = "done"
    /\ ewe = e /\ packedgraph = p
    /\ \A i \in 1..Len(corpus) : Preterminals(corpus[i])

\* C1: dopreduction with the relative frequency estimate and without the
\* packed graph, on trees whose leaf-bearing nodes are preterminals over one
\* token: for every LHS of the returned grammar, plain or decorated, the
\* weights of its rules sum to exactly 1.
C1_RfeSumsToOne == DopReturned(FALSE, FALSE) => Normalised(result.rules)

\* two trees were read, a label sits on more than one node, and the grammar
\* has decorated LHS and weights below 1
C1_Witness ==
    /\ DopReturned(FALSE, FALSE)
    /\ Len(corpus) = 2
    /\ \E l \in DOMAIN ntfd : ~isdecorated(l) /\ ntfd[l] >= 4
    /\ \E i \in 1..Len(result.rules) : isdecorated(result.rules[i].rule.r[1])
    /\ \E i \in 1..Len(result.rules) : result.rules[i].w # FracOfInt(1)

\* C6: dopreduction with the equal weights estimate and without the packed
\* graph: for every LHS of the returned grammar the weights of its rules
\* sum to exactly 1.
C6_EweSumsToOne == DopReturned(TRUE, FALSE) => Normalised(result.rules)

\* some subtree recurs in the corpus: its decorated label was handed out to
\* more than one node
SharedLabel == \E l \in DOMAIN ntfd : isdecorated(l) /\ ntfd[l] >= 2

\* C7: dopreduction with the packed graph and the relative frequency
\* estimate, when a subtree recurs and its occurrences share one decorated
\* label: for every LHS of the returned grammar, plain or shared, the weights
\* of its rules sum to exactly 1.
C7_PackedSumsToOne ==
    DopReturned(FALSE, TRUE) /\ SharedLabel => Normalised(result.rules)

-----------------------------------------------------------------------------
(* Double-DOP: flatten.  The code holds a fragment as the bracketed text   *)
(* of a tree; a match of FRONTIERORTERM in that text is a node that has    *)
(* nothing but indices below it.                                           *)

\* str.count(c)
count(s, c) == Cardinality({i \in 1..Len(s) : s[i] = c})

\* quotelabel(label): parentheses become square brackets
quotelabel(label) ==
    [i \in 1..Len(label) |->
        IF label[i] = "(" THEN "[" ELSE IF label[i] = ")" THEN "]" ELSE label[i]]

\* FRONTIERORTERM matches at the node t
ismatch(t) == isTree(t) /\ t.ch # <<>> /\ \A i \in 1..Len(t.ch) : isInt(t.ch[i])

\* repl(x): a frontier stays, a terminal becomes (tag@word idx)
repl(x, s) ==
    IF s[x.ch[1].idx + 1] = None THEN x
    ELSE T(x.label \o At \o quotelabel(s[x.ch[1].idx + 1]), <<x.ch[1]>>)

RECURSIVE finditer(_)
\* FRONTIERORTERM.finditer(text): the matches in the order of the text
finditer(t) ==
    IF ~isTree(t) THEN <<>>
    ELSE IF ismatch(t) THEN <<t>>
    ELSE Concat([i \in 1..Len(t.ch) |-> finditer(t.ch[i])])

RECURSIVE subrepl(_, _)
\* FRONTIERORTERM.sub(repl, tree)
subrepl(t, s) ==
    IF ~isTree(t) THEN t
    ELSE IF ismatch(t) THEN repl(t, s)
    ELSE T(t.label, [i \in 1..Len(t.ch) |-> subrepl(t.ch[i], s)])

sortbyindexNone(ms) == ms

RECURSIVE sortbyindex(_)
\* sorted(matches, key=lambda x: int(x.group(2))): stable, by first index
sortbyindex(ms) ==
    IF ms = <<>> THEN <<>>
    ELSE LET k == CHOOSE i \in 1..Len(ms) : \A j \in 1..Len(ms) :
                    \/ ms[i].ch[1].idx < ms[j].ch[1].idx
                    \/ ms[i].ch[1].idx = ms[j].ch[1].idx /\ i <= j
         IN <<ms[k]>> \o sortbyindex(SubSeq(ms, 1, k - 1) \o SubSeq(ms, k + 1, Len(ms)))

\* the number of maximal runs of consecutive indices in S
fanout(S) == Cardinality({i \in S : i - 1 \notin S})

\* "%s}<%d>%s" % (label, id, '' if fanout == 1 else '_%d' % fanout)
newlabel(label, id, f) ==
    label \o <<"}", "<">> \o Dec(id) \o <<">">>
          \o (IF f = 1 THEN <<>> ELSE <<"_">> \o Dec(f))

RECURSIVE leftfactor(_, _, _)
\* the artificial node over the children ch (two or more) of a node named
\* label; the innermost node takes the ID next, every node around it the
\* following one
leftfactor(label, ch, next) ==
    LET f == fanout(UNION {leafset(ch[i]) : i \in 1..Len(ch)})
    IN IF Len(ch) = 2 THEN T(newlabel(label, next, f), ch)
       ELSE T(newlabel(label, next + Len(ch) - 2, f),
              <<leftfactor(label, SubSeq(ch, 1, Len(ch) - 1), next), ch[Len(ch)]>>)

\* factorconstituent(node, "}", factor='left', markfanout=True, ids=ids,
\* threshold=2): [t, ids]
factorconstituent(t, next) ==
    IF Len(t.ch) <= 2 THEN [t |-> t, ids |-> next]
    ELSE [t |-> T(t.label, <<leftfactor(t.label, SubSeq(t.ch, 1, Len(t.ch) - 1), next),
                             t.ch[Len(t.ch)]>>),
          ids |-> next + Len(t.ch) - 2]

\* order: the first index of a match of the flattened tree -> its position
order(ms) == [x \in {ms[n].ch[1].idx : n \in 1..Len(ms)} |->
                (CHOOSE n \in 1..Len(ms) : ms[n].ch[1].idx = x) - 1]

RECURSIVE template(_, _)
\* FRONTIERORTERM.sub(lambda x: order[x.group(2)], tree): the text of the
\* fragment with "{n}" in the place of every match
template(t, ord) ==
    IF isInt(t) THEN Dec(t.idx)
    ELSE IF ismatch(t) THEN <<"{">> \o Dec(ord[t.ch[1].idx]) \o <<"}">>
    ELSE <<"(">> \o t.label
         \o Concat([i \in 1..Len(t.ch) |-> <<" ">> \o template(t.ch[i], ord)]) \o <<")">>

flattenNoSkip(t, s, next) ==
    LET rel == subrepl(t, s)
        ms == sortbyindex(finditer(rel))
        bin == factorconstituent(T(rel.label, ms), next)
        ps == lcfrs_productions(bin.t, s, FALSE)
    IN [err |-> ps.err, prods |-> ps.rules, frag |-> template(t, order(ms)),
        ids |-> bin.ids]

\* flatten(tree, sent, ids) with the counter of ids at next:
\* [err, prods, frag, ids]
flatten(t, s, next) ==
    IF count(Str(t), " ") = 1
    THEN LET ps == lcfrs_productions(t, s, FALSE)
         IN [err |-> ps.err, prods |-> ps.rules, frag |-> Str(t), ids |-> next]
    ELSE LET rel == subrepl(t, s)
             ms == sortbyindex(finditer(rel))
             bin == factorconstituent(T(rel.label, ms), next)
             ps == lcfrs_productions(bin.t, s, FALSE)
         IN [err |-> ps.err, prods |-> ps.rules, frag |-> template(t, order(ms)),
             ids |-> bin.ids]

-----------------------------------------------------------------------------
(* Double-DOP: the assembler.  A dict is a function; an item of the        *)
(* argument 'fragments' is [t, s, val] with the key (t, s) and the value   *)
(* val: a frequency, or with ewe a dict from tree number to frequency.     *)

\* d[key] = v
Put(d, key, v) == [k \in DOMAIN d \cup {key} |-> IF k = key THEN v ELSE d[k]]

RECURSIVE PutAll(_, _, _)
\* d.update(zip(keys, repeat(v)))
PutAll(d, keys, v) ==
    IF keys = <<>> THEN d ELSE PutAll(Put(d, Head(keys), v), Tail(keys), v)

RECURSIVE SumSeq(_)
SumSeq(ns) == IF ns = <<>> THEN 0 ELSE Head(ns) + SumSeq(Tail(ns))

\* lines 235-238: the number of fragments extracted from every tree
fragmentcount(fs) ==
    [k \in UNION {DOMAIN fs[i].val : i \in 1..Len(fs)} |->
        SumSeq([i \in 1..Len(fs) |-> IF k \in DOMAIN fs[i].val THEN fs[i].val[k] ELSE 0])]

\* getprob that takes the counts of the fragment alone, not divided by
\* the number of fragments of the tree
getprobUndivided(f, fs, e) ==
    IF e THEN LET ks == SetToSeq(DOMAIN f.val)
              IN FracSum([i \in 1..Len(ks) |-> FracOfInt(f.val[ks[i]])])
    ELSE FracOfInt(f.val)

\* getprob(frag, terminals, ewe)
getprob(f, fs, e) ==
    IF e THEN LET ks == SetToSeq(DOMAIN f.val)
              IN FracSum([i \in 1..Len(ks) |->
                            Fraction(f.val[ks[i]], fragmentcount(fs)[ks[i]])])
    ELSE FracOfInt(f.val)

\* lines 253-260: the productions that take the place of prod on a collision
prod1(prod, id) ==
    Rule(<<prod.r[1], newlabel(prod.r[1], id, Len(prod.yf))>>
            \o SubSeq(prod.r, 3, Len(prod.r)), prod.yf, prod.w)

prod2(prod, id) ==
    Rule(<<newlabel(prod.r[1], id, Len(prod.yf)), prod.r[2]>>,
         [i \in 1..count(Concat(prod.yf), 0) |-> <<0>>], <<>>)

neverword(rule) == FALSE

\* rule[0][0][1] == 'Epsilon': the first part of the sort key is the word
haswordkey(rule) == isLexical(rule)

Separator == <<"}", "<">>

\* '}<' in rule[0][0][0]
ischain(rule) == Contains(rule.r[1], Separator)

RECURSIVE LabelsLess(_, _)
\* a < b for two tuples of str
LabelsLess(a, b) ==
    IF b = <<>> THEN FALSE
    ELSE IF a = <<>> THEN TRUE
    ELSE IF Head(a) # Head(b) THEN StrLess(Head(a), Head(b))
    ELSE LabelsLess(Tail(a), Tail(b))

RECURSIVE IntsLess(_, _)
\* a < b for two tuples of int
IntsLess(a, b) ==
    IF b = <<>> THEN FALSE
    ELSE IF a = <<>> THEN TRUE
    ELSE IF Head(a) # Head(b) THEN Head(a) < Head(b)
    ELSE IntsLess(Tail(a), Tail(b))

RECURSIVE YfLess(_, _)
\* a < b for two yield functions
YfLess(a, b) ==
    IF b = <<>> THEN FALSE
    ELSE IF a = <<>> THEN TRUE
    ELSE IF Head(a) # Head(b) THEN IntsLess(Head(a), Head(b))
    ELSE YfLess(Tail(a), Tail(b))

\* x < y for two different keys (r, yf) of the dict
ruleless(x, y) ==
    IF x.r # y.r THEN LabelsLess(x.r, y.r)
    ELSE IF x.w # y.w THEN LabelsLess(x.w, y.w)
    ELSE YfLess(x.yf, y.yf)

\* the sort key of lines 288-291, (False or the word, '}<' in LHS, rule);
\* False sorts before True and before every str (Python 2)
grammarkeyless(x, y) ==
    IF haswordkey(x) # haswordkey(y) THEN ~haswordkey(x)
    ELSE IF haswordkey(x) /\ x.w[1] # y.w[1] THEN StrLess(x.w[1], y.w[1])
    ELSE IF ischain(x) # ischain(y) THEN ~ischain(x)
    ELSE ruleless(x, y)

RECURSIVE sortedgrammar(_)
\* sorted(grammar.items(), key=...): [rule, mass] in increasing order; no
\* two items have the same key
sortedgrammar(d) ==
    IF DOMAIN d = {} THEN <<>>
    ELSE LET first == CHOOSE x \in DOMAIN d :
                        \A y \in DOMAIN d \ {x} : grammarkeyless(x, y)
         IN <<[rule |-> first, mass |-> d[first]]>>
            \o sortedgrammar([k \in DOMAIN d \ {first} |-> d[k]])

\* lines 293-294: the position of enumerate() for every rule that is a key
\* of backtransform
remap(g, bt) ==
    [n \in {i - 1 : i \in {j \in 1..Len(g) : g[j].rule \in DOMAIN bt}} |->
        bt[g[n + 1].rule]]

totalAll(g, lhs) == FracSum([i \in 1..Len(g) |-> g[i].mass])

\* lines 296-297: ntfd[rule[0][0]] after the loop
total(g, lhs) ==
    FracSum([i \in 1..Len(g) |->
                IF g[i].rule.r[1] = lhs THEN g[i].mass ELSE FracOfInt(0)])

\* line 298: Fraction(freq, ntfd[rule[0][0]])
normalise(g) ==
    [i \in 1..Len(g) |->
        [rule |-> g[i].rule, w |-> FracDiv(g[i].mass, total(g, g[i].rule.r[1]))]]

-----------------------------------------------------------------------------
(* Double-DOP: the run *)

MaxFrags == 2
DDMaxNodes == 6

\* the sets of sentence positions that a fragment covers
LeafSets == {{0}, {0, 1, 2}}

Max(S) == CHOOSE x \in S : \A y \in S : y <= x

\* the terminals of a fragment over the positions S: frontiers only, or
\* words at the even positions ("b" first, so that the order of the words
\* is not the order of the tags)
DDSents(S) ==
    {[j \in 1..(Max(S) + 1) |-> None],
     [j \in 1..(Max(S) + 1) |->
        IF j = 1 THEN <<"b">> ELSE IF j % 2 = 1 THEN <<"a">> ELSE None]}

\* a fragment of k nodes with the root S, and its terminals
DDItems(k) ==
    UNION {{[t |-> T(<<"S">>, t.ch), s |-> s] : t \in Gen(k, S, {}), s \in DDSents(S)}
           : S \in LeafSets}

RECURSIVE FragSeqs(_, _)
\* the sequences of at most j fragments with at most b nodes altogether
FragSeqs(j, b) ==
    IF j = 0 \/ b = 0 THEN {<<>>}
    ELSE {<<>>} \cup UNION {UNION {{<<x>> \o c : c \in FragSeqs(j - 1, b - k)}
                                   : x \in DDItems(k)}
                            : k \in 1..b}

\* the value of the i-th item: it was seen i + 1 times, or with ewe i times
\* in tree 0 and once in tree i
occurrences(i, e) == IF e THEN (0 :> i) @@ (i :> 1) ELSE i + 1

InitDD ==
    /\ mode = "doubledop"
    /\ pc = "loop"
    /\ ewe \in BOOLEAN
    /\ \E fs \in FragSeqs(MaxFrags, DDMaxNodes) :
          /\ \A i, j \in 1..Len(fs) : i # j => fs[i] # fs[j]
          /\ fragments = [i \in 1..Len(fs) |->
                            [t |-> fs[i].t, s |-> fs[i].s, val |-> occurrences(i, ewe)]]
    /\ fragno = 0
    /\ grammar = <<>> /\ backtransform = <<>> /\ flattened = NoProds /\ flat = <<>>
    /\ result = Returned(<<>>)
    /\ corpus = <<>> /\ packedgraph = FALSE /\ sentno = 0
    /\ fd = <<>> /\ ntfd = <<>> /\ rulecounts = <<>>
    /\ packedgraphs = <<>> /\ packed_graph_ids = 0
    /\ utrees = <<>> /\ runs = 0
    /\ ProdIdle /\ IdsIdle

\* line 244: prods, newfrag = flatten(frag, terminals, ids)
DDFlatten ==
    /\ mode = "doubledop" /\ pc = "loop" /\ fragno < Len(fragments)
    /\ LET fl == flatten(fragments[fragno + 1].t, fragments[fragno + 1].s, cnt)
       IN /\ flattened' = [err |-> fl.err, prods |-> fl.prods, frag |-> fl.frag]
          /\ cnt' = fl.ids
    /\ pc' = "body"
    /\ UNCHANGED <<mode, result, ids, calls, prodvars, dopvars, fragments, fragno,
                   grammar, backtransform, flat>>

\* lines 244-245: flatten raised, or prods[0] does
DDRaise ==
    /\ mode = "doubledop" /\ pc = "body"
    /\ flattened.err # "" \/ flattened.prods = <<>>
    /\ result' = Raised(IF flattened.err # "" THEN flattened.err ELSE "IndexError")
    /\ pc' = "raised"
    /\ UNCHANGED <<mode, idvars, prodvars, dopvars, ddvars>>

\* lines 246-248: a lexical production
DDLexical ==
    /\ mode = "doubledop" /\ pc = "body"
    /\ flattened.err = "" /\ flattened.prods # <<>>
    /\ isLexical(flattened.prods[1])
    /\ grammar' = Put(grammar, flattened.prods[1],
                      getprob(fragments[fragno + 1], fragments, ewe))
    /\ flat' = Append(flat, [head |-> flattened.prods[1], frag |-> flattened.frag,
                             prods |-> flattened.prods])
    /\ fragno' = fragno + 1
    /\ pc' = "loop"
    /\ UNCHANGED <<mode, result, idvars, prodvars, dopvars, fragments, backtransform,
                   flattened>>

\* lines 263-267: the first production gets the mass and is the key
register(prod, prods, frag) ==
    /\ grammar' = PutAll(Put(grammar, prod, getprob(fragments[fragno + 1], fragments, ewe)),
                         Tail(prods), FracOfInt(1))
    /\ backtransform' = Put(backtransform, prod, frag)
    /\ flat' = Append(flat, [head |-> prod, frag |-> frag, prods |-> prods])
    /\ fragno' = fragno + 1
    /\ pc' = "loop"

\* lines 249-267: the production is a key of backtransform already
DDCollide ==
    /\ mode = "doubledop" /\ pc = "body"
    /\ flattened.err = "" /\ flattened.prods # <<>>
    /\ ~isLexical(flattened.prods[1])
    /\ flattened.prods[1] \in DOMAIN backtransform
    /\ register(flattened.prods[1],
                <<prod1(flattened.prods[1], cnt), prod2(flattened.prods[1], cnt)>>
                    \o Tail(flattened.prods),
                flattened.frag)
    /\ cnt' = cnt + 1
    /\ UNCHANGED <<mode, result, ids, calls, prodvars, dopvars, fragments, flattened>>

\* lines 263-267 without a collision
DDRegister ==
    /\ mode = "doubledop" /\ pc = "body"
    /\ flattened.err = "" /\ flattened.prods # <<>>
    /\ ~isLexical(flattened.prods[1])
    /\ flattened.prods[1] \notin DOMAIN backtransform
    /\ register(flattened.prods[1], flattened.prods, flattened.frag)
    /\ UNCHANGED <<mode, result, idvars, prodvars, dopvars, fragments, flattened>>

\* lines 288-300: sort, renumber the backtransform, normalise, return
DDFinish ==
    /\ mode = "doubledop" /\ pc = "loop" /\ fragno = Len(fragments)
    /\ LET g == sortedgrammar(grammar)
       IN /\ grammar' = g
          /\ backtransform' = remap(g, backtransform)
          /\ result' = Returned(normalise(g))
    /\ pc' = "done"
    /\ UNCHANGED <<mode, idvars, prodvars, dopvars, fragments, fragno, flattened, flat>>

NextDD == DDFlatten \/ DDRaise \/ DDLexical \/ DDCollide \/ DDRegister \/ DDFinish

SpecDD == InitDD /\ [][NextDD]_vars

-----------------------------------------------------------------------------
(* Double-DOP: the grammar and the backtransform *)

DDReturned == mode = "doubledop" /\ pc = "done"

\* the three clusters of the sorted grammar: 0 for a rule that is neither
\* lexical nor has the separator in its LHS, 1 for a non-lexical rule with
\* the separator in its LHS, 2 for a lexical rule
Cluster(rule) ==
    IF isLexical(rule) THEN 2 ELSE IF Contains(rule.r[1], <<"}", "<">>) THEN 1 ELSE 0

\* C4: in the result of doubledop every key i of backtransform is the
\* position of the head production of a fragment whose template is
\* backtransform[i]; the keys are exactly the positions 0..k-1, the rules
\* before every rule with "}<" in its LHS, and these come before the lexical
\* rules, which are last and ordered by word.
C4_BacktransformAligned ==
    DDReturned =>
        LET g == result.rules
            k == Cardinality(DOMAIN backtransform)
        IN /\ DOMAIN backtransform = 0..(k - 1)
           /\ \A i \in DOMAIN backtransform : \E j \in 1..Len(flat) :
                 flat[j].head = g[i + 1].rule /\ flat[j].frag = backtransform[i]
           /\ \A p \in 1..Len(g) : (Cluster(g[p].rule) = 0) <=> (p <= k)
           /\ \A p, q \in 1..Len(g) : p < q =>
                 /\ Cluster(g[p].rule) <= Cluster(g[q].rule)
                 /\ Cluster(g[p].rule) = 2 => ~StrLess(g[q].rule.w[1], g[p].rule.w[1])

\* two fragments gave a head, a rule with the separator in its LHS and
\* lexical rules whose words sort against their tags
C4_Witness ==
    /\ DDReturned
    /\ Len(flat) = 2
    /\ DOMAIN backtransform # {}
    /\ \E p \in 1..Len(result.rules) : Cluster(result.rules[p].rule) = 1
    /\ \E p, q \in 1..Len(result.rules) :
          /\ p < q
          /\ Cluster(result.rules[p].rule) = 2
          /\ StrLess(result.rules[p].rule.w[1], result.rules[q].rule.w[1])
          /\ StrLess(result.rules[q].rule.r[1], result.rules[p].rule.r[1])

\* the fragments whose head production is not lexical
Heads == {j \in 1..Len(flat) : ~isLexical(flat[j].head)}

\* C5: after doubledop, every fragment with a non-lexical head production
\* has its own entry of backtransform, at the position of a rule that
\* carries that fragment's mass, also when two fragments flatten to the same
\* head production; so backtransform has as many entries as there are such
\* fragments.
C5_CollisionKeepsBoth ==
    DDReturned =>
        /\ Cardinality(DOMAIN backtransform) = Cardinality(Heads)
        /\ \A j \in Heads : \E i \in DOMAIN backtransform :
              /\ backtransform[i] = flat[j].frag
              /\ grammar[i + 1].mass = getprob(fragments[j], fragments, ewe)

\* the mass of all the rules of g with the LHS lhs
LhsMass(g, lhs) ==
    LET at == SetToSeq({i \in 1..Len(g) : g[i].rule.r[1] = lhs})
    IN FracSum([n \in 1..Len(at) |-> g[at[n]].mass])

\* C8: in the grammar returned by doubledop every weight is the mass stored
\* for the rule divided by the mass of all rules with the same LHS, and for
\* every LHS the weights sum to exactly 1, with raw counts and with ewe,
\* after collisions too.
C8_RelativeFrequencies ==
    DDReturned =>
        /\ Len(result.rules) = Len(grammar)
        /\ \A i \in 1..Len(grammar) :
              /\ result.rules[i].rule = grammar[i].rule
              /\ result.rules[i].w =
                    FracDiv(grammar[i].mass, LhsMass(grammar, grammar[i].rule.r[1]))
        /\ Normalised(result.rules)

\* with ewe: two fragments, a mass that is no integer, an LHS with several
\* rules, and lexical rules
C8_Witness ==
    /\ DDReturned /\ ewe
    /\ Len(flat) = 2
    /\ \E i \in 1..Len(grammar) : grammar[i].mass.den # 1
    /\ \E i \in 1..Len(result.rules) : result.rules[i].w # FracOfInt(1)
    /\ \E i \in 1..Len(result.rules) : Cluster(result.rules[i].rule) = 2

-----------------------------------------------------------------------------
(* nodefreq on one tree and its decorated copy, from empty tables *)

FreqMaxNodes == 4
FreqMaxLeaves == 2

\* the labels of the tree of nodefreq's doctest
FreqLabels == {<<"S">>, <<"N", "P">>, <<"V", "P">>}

\* Tree("(S (NP mary) (VP walks))"): the words are the leaves 0 and 1
FreqDoctest == T(<<"S">>, <<T(<<"N", "P">>, <<I(0)>>), T(<<"V", "P">>, <<I(1)>>)>>)

InitFreq ==
    /\ mode = "nodefreq"
    /\ pc = "call"
    /\ \E k \in 1..FreqMaxNodes, m \in 1..FreqMaxLeaves :
         /\ tree \in Gen(k, 0..(m - 1), FreqLabels)
         /\ sent = [j \in 1..m |-> <<"a">>]
    /\ sentno \in {0, 1}
    /\ todo = <<>> /\ rules = <<>>
    /\ corpus = <<>> /\ ewe = FALSE /\ packedgraph = FALSE
    /\ fd = <<>> /\ ntfd = <<>> /\ rulecounts = <<>>
    /\ packedgraphs = <<>> /\ packed_graph_ids = 0
    /\ utrees = <<>> /\ runs = 0
    /\ result = Returned(0)
    /\ IdsIdle /\ DDIdle

\* utree = decorate_with_ids(n, tree, sent)
FreqDecorate ==
    /\ mode = "nodefreq" /\ pc = "call"
    /\ utrees' = <<decorate_with_ids(sentno, tree)>>
    /\ pc' = "decorated"
    /\ UNCHANGED <<mode, result, prodvars, idvars, ddvars, corpus, ewe, packedgraph,
                   sentno, fd, ntfd, rulecounts, packedgraphs, packed_graph_ids, runs>>

\* nodefreq(tree, utree, fd, ntfd)
FreqCount ==
    /\ mode = "nodefreq" /\ pc = "decorated"
    /\ LET nf == nodefreq(tree, utrees[1], fd, ntfd)
       IN /\ fd' = nf.fd
          /\ ntfd' = nf.ntfd
          /\ result' = Returned(nf.n)
    /\ pc' = "done"
    /\ UNCHANGED <<mode, prodvars, idvars, ddvars, corpus, ewe, packedgraph, sentno,
                   rulecounts, packedgraphs, packed_graph_ids, utrees, runs>>

NextFreq == FreqDecorate \/ FreqCount

SpecFreq == InitFreq /\ [][NextFreq]_vars

RECURSIVE SubtreeCount(_)
\* the number the claim gives a node: 1 over a leaf, else the product over
\* the children of (the child's number + 1)
SubtreeCount(t) ==
    IF ~isTree(t.ch[1]) THEN 1
    ELSE LET RECURSIVE prod(_)
             prod(i) == IF i > Len(t.ch) THEN 1
                        ELSE (SubtreeCount(t.ch[i]) + 1) * prod(i + 1)
         IN prod(1)

\* the sum of the numbers of the nodes of t that carry the label l
LabelCount(t, l) ==
    LET at == SetToSeq({i \in 1..Len(subtrees(t)) : subtrees(t)[i].label = l})
    IN SumSeq([k \in 1..Len(at) |-> SubtreeCount(subtrees(t)[at[k]])])

FreqDone == mode = "nodefreq" /\ pc = "done"

\* C11: nodefreq returns 1 for a node over a leaf and else the product over
\* the children of (the child's count + 1); every node's count is added to
\* subtreefd under the node's plain label; on (S (NP mary) (VP walks)),
\* decorated with n = 1, it returns 4 and leaves S:4, NP:1, VP:1, NP@1-0:1
\* and VP@1-1:1 in subtreefd.
C11_NodeFreq ==
    FreqDone =>
        /\ result.rules = SubtreeCount(tree)
        /\ \A l \in FreqLabels : Lookup(fd, l) = LabelCount(tree, l)
        /\ tree = FreqDoctest /\ sentno = 1 =>
              /\ result.rules = 4
              /\ fd = (<<"S">> :> 4) @@ (<<"N", "P">> :> 1) @@ (<<"V", "P">> :> 1)
                        @@ (<<"N", "P", "@", "1", "-", "0">> :> 1)
                        @@ (<<"V", "P", "@", "1", "-", "1">> :> 1)

\* the doctest's call has returned
C11_Witness == FreqDone /\ tree = FreqDoctest /\ sentno = 1 /\ result.rules = 4

\* the number of nodes of t that carry the label l
NodesLabelled(t, l) == Cardinality({i \in 1..Len(subtrees(t)) : subtrees(t)[i].label = l})

\* C17: from empty tables, nodefreq counts no node twice: the root, whose
\* label the decoration left alone, is counted once, so that nonterminalfd
\* holds for every plain or decorated label the number of nodes that carry it.
C17_RootCountedOnce ==
    FreqDone =>
        \A l \in DOMAIN ntfd :
            ntfd[l] = IF isdecorated(l) THEN NodesLabelled(utrees[1], l)
                      ELSE NodesLabelled(tree, l)

-----------------------------------------------------------------------------
(* flatten: the template and the productions of the fragment at hand *)

FlatMaxNodes == 5
FlatMaxLeaves == 3

\* the sentences of m positions: every position a frontier or a word, "b"
\* at the first position and "a" behind it, so that the order of the
\* words is not the order of the tags
FlatSents(m) ==
    {[j \in 1..m |-> IF j \in W THEN (IF j = 1 THEN <<"b">> ELSE <<"a">>) ELSE None]
        : W \in SUBSET (1..m)}

\* a call flatten(tree, sent, ids) on a fragment with every index of sent
InitFlat ==
    /\ mode = "flatten"
    /\ pc = "call"
    /\ \E k \in 1..FlatMaxNodes, m \in 1..FlatMaxLeaves :
          /\ tree \in Gen(k, 0..(m - 1), {})
          /\ sent \in FlatSents(m)
    /\ todo = <<>> /\ rules = <<>>
    /\ cnt \in {0, 9}
    /\ ids = <<>> /\ calls = <<>>
    /\ result = Returned(<<>>)
    /\ DopIdle /\ DDIdle

\* prods, newfrag = flatten(tree, sent, ids)
FlatCall ==
    /\ mode = "flatten" /\ pc = "call"
    /\ LET fl == flatten(tree, sent, cnt)
       IN /\ flattened' = [err |-> fl.err, prods |-> fl.prods, frag |-> fl.frag]
          /\ cnt' = fl.ids
    /\ pc' = "done"
    /\ UNCHANGED <<mode, result, ids, calls, prodvars, dopvars, fragments, fragno,
                   grammar, backtransform, flat>>

NextFlat == FlatCall

SpecFlat == InitFlat /\ [][NextFlat]_vars

\* the fragment that flatten was called with
Frag == [t |-> tree, s |-> sent]

Flattened == mode = "flatten" /\ pc = "done" /\ flattened.err = ""

\* the frontier/lexical positions of the fragment, in the order of its text
Positions(t) == finditer(t)

\* the rank of the position x among the positions pos, by first index
Rank(pos, x) ==
    Cardinality({i \in 1..Len(pos) : pos[i].ch[1].idx < x.ch[1].idx})

\* the position of rank n
AtRank(pos, n) == CHOOSE x \in Range(pos) : Rank(pos, x) = n

RECURSIVE RankedText(_, _)
\* the text of the node u of a fragment with the positions pos, with
\* "{rank}" for every position
RankedText(pos, u) ==
    IF isInt(u) THEN Dec(u.idx)
    ELSE IF u \in Range(pos) THEN <<"{">> \o Dec(Rank(pos, u)) \o <<"}">>
    ELSE <<"(">> \o u.label
         \o Concat([i \in 1..Len(u.ch) |-> <<" ">> \o RankedText(pos, u.ch[i])])
         \o <<")">>

RECURSIVE ParseNat(_)
\* int(digits)
ParseNat(ds) ==
    IF ds = <<>> THEN 0
    ELSE 10 * ParseNat(SubSeq(ds, 1, Len(ds) - 1))
            + (CHOOSE d \in 0..9 : Digits[d + 1] = ds[Len(ds)])

\* the first "}" of text at or behind i
Closing(text, i) == Min({j \in i..Len(text) : text[j] = "}"})

RECURSIVE Placeholders(_, _)
\* the numbers of the placeholders "{n}" of text from i on, left to right
Placeholders(text, i) ==
    IF i > Len(text) THEN <<>>
    ELSE IF text[i] = "{"
    THEN <<ParseNat(SubSeq(text, i + 1, Closing(text, i) - 1))>>
            \o Placeholders(text, Closing(text, i) + 1)
    ELSE Placeholders(text, i + 1)

RECURSIVE Substitute(_, _, _)
\* text from i on with texts[n + 1] in the place of every "{n}"
Substitute(text, i, texts) ==
    IF i > Len(text) THEN <<>>
    ELSE IF text[i] = "{"
    THEN texts[ParseNat(SubSeq(text, i + 1, Closing(text, i) - 1)) + 1]
            \o Substitute(text, Closing(text, i) + 1, texts)
    ELSE <<text[i]>> \o Substitute(text, i + 1, texts)

\* the tag of the synthetic leaf that stands for the position x
LeafTag(x, s) ==
    IF s[x.ch[1].idx + 1] = None THEN x.label
    ELSE x.label \o <<"@">> \o quotelabel(s[x.ch[1].idx + 1])

RECURSIVE ChainLeaves(_, _)
\* the leaves, left to right, below the LHS of the production prods[i]: a
\* RHS label with the separator is the LHS of the production behind it
ChainLeaves(prods, i) ==
    LET r == prods[i].r
    IN Concat([j \in 1..(Len(r) - 1) |->
                 IF Contains(r[j + 1], Separator) /\ i < Len(prods)
                 THEN ChainLeaves(prods, i + 1) ELSE <<r[j + 1]>>])

\* C13: for a fragment with k >= 2 frontier/lexical positions the template
\* that flatten returns is the fragment's text with "{n}" in the place of
\* every position, n the rank of the position's first index; the
\* placeholders are a permutation of 0..k-1, they number the positions in
\* the left-to-right order of the synthetic leaves of the flattened
\* fragment, and putting the text of the position of rank n in the place of
\* every "{n}" gives the fragment's text back.
C13_TemplateRoundTrip ==
    Flattened /\ Len(Positions(Frag.t)) >= 2 =>
        LET pos == Positions(Frag.t)
            k == Len(pos)
            ph == Placeholders(flattened.frag, 1)
        IN /\ flattened.frag = RankedText(pos, Frag.t)
           /\ Len(ph) = k /\ Range(ph) = 0..(k - 1)
           /\ ChainLeaves(flattened.prods, 1)
                = [n \in 1..k |-> LeafTag(AtRank(pos, n - 1), Frag.s)]
           /\ Substitute(flattened.frag, 1, [n \in 1..k |-> Str(AtRank(pos, n - 1))])
                = Str(Frag.t)

\* a fragment with three positions, one of them a word, whose order in the
\* text is not the order of their indices, has been flattened
C13_Witness ==
    /\ Flattened /\ Len(Positions(Frag.t)) = 3
    /\ Placeholders(flattened.frag, 1) # <<0, 1, 2>>
    /\ \E x \in Range(Positions(Frag.t)) : LeafTag(x, Frag.s) # x.label
    /\ \E i \in 1..Len(flattened.prods) : Contains(flattened.prods[i].r[1], Separator)

\* no label of a production has the separator
NoSeparator(prods) ==
    \A i \in 1..Len(prods) : \A j \in 1..Len(prods[i].r) :
        ~Contains(prods[i].r[j], Separator)

\* the productions of the fragment itself
Raw == lcfrs_productions(Frag.t, Frag.s, FALSE).rules

\* C14 as stated: on a fragment with exactly one frontier/lexical position
\* the first production that flatten returns is the first raw LCFRS
\* production of the fragment, and no returned production has a label with
\* the separator "}<".
C14_OneSlotRaw ==
    Flattened /\ Len(Positions(Frag.t)) = 1 =>
        /\ flattened.prods # <<>> =>
              Raw # <<>> /\ flattened.prods[1] = Raw[1]
        /\ NoSeparator(flattened.prods)

\* C14 as amended: on a fragment that is one node over one index (its text
\* has one space) flatten returns the raw LCFRS productions of the fragment
\* and the text itself; on every fragment with exactly one frontier/lexical
\* position no returned production has a label with the separator "}<".
C14_SingleNodeRaw ==
    Flattened =>
        /\ count(Str(Frag.t), " ") = 1 =>
              flattened.prods = Raw /\ flattened.frag = Str(Frag.t)
        /\ Len(Positions(Frag.t)) = 1 => NoSeparator(flattened.prods)

\* a preterminal over a word was flattened into its lexical production
C14_Witness ==
    /\ Flattened /\ count(Str(Frag.t), " ") = 1
    /\ flattened.prods # <<>> /\ isLexical(flattened.prods[1])

-----------------------------------------------------------------------------
(* lcfrs_productions: components and variables of a yield function *)

\* the indices below the node st in increasing order
SortedLeaves(st) == SetToSeq(leafset(st))

\* the child of st that contributes the index x
Owner(st, x) == CHOOSE k \in 1..Len(st.ch) : x \in leafset(st.ch[k])

\* the places of the scan where the index is not the previous index + 1
Breaks(st) ==
    {i \in 2..Len(SortedLeaves(st)) : SortedLeaves(st)[i] # SortedLeaves(st)[i - 1] + 1}

\* the places of the scan where the index is the previous index + 1 and the
\* contributing child changes
Switches(st) ==
    {i \in 2..Len(SortedLeaves(st)) :
        /\ SortedLeaves(st)[i] = SortedLeaves(st)[i - 1] + 1
        /\ Owner(st, SortedLeaves(st)[i]) # Owner(st, SortedLeaves(st)[i - 1])}

ProdDone == mode = "lcfrs_productions" /\ pc = "done"

\* the internal nodes with their rules: <<node, yield function>>
InternalRules ==
    {<<RuleNodes(tree, sent)[i], result.rules[i].yf>> :
        i \in {j \in 1..Len(result.rules) : ~isLexical(result.rules[j])}}

\* C15 as stated: a change of the contributing child between two adjacent
\* indices starts a new component, as a break of contiguity does: the yield
\* function has one component more than there are breaks and child changes.
C15_SwitchStartsComponent ==
    ProdDone =>
        \A x \in InternalRules :
            Len(x[2]) = 1 + Cardinality(Breaks(x[1])) + Cardinality(Switches(x[1]))

\* C15 as amended: a change of the contributing child between two adjacent
\* indices appends the child to the current component: only a break of
\* contiguity starts a component, and the components together hold one
\* variable more than there are breaks and child changes.
C15_SwitchExtendsComponent ==
    ProdDone =>
        \A x \in InternalRules :
            /\ Len(x[2]) = 1 + Cardinality(Breaks(x[1]))
            /\ SumSeq([c \in 1..Len(x[2]) |-> Len(x[2][c])])
                 = 1 + Cardinality(Breaks(x[1])) + Cardinality(Switches(x[1]))

\* a node whose children alternate at adjacent indices gave a rule with one
\* component of three variables, and a node with a break gave its rule
C15_Witness ==
    /\ ProdDone
    /\ \E x \in InternalRules : Cardinality(Switches(x[1])) = 2 /\ x[2] = <<<<0, 1, 0>>>>
    /\ \E x \in InternalRules : Breaks(x[1]) # {}

-----------------------------------------------------------------------------
(* Several calls of dopreduction(packedgraph=True) in one process: the     *)
(* cache and the counter are module-level, everything else is local to a   *)
(* call.                                                                   *)

MaxRuns == 2
RunMaxNodes == 3

InitRuns ==
    /\ mode = "dopreduction"
    /\ pc = "collect"
    /\ corpus \in Corpora(MaxTrees, RunMaxNodes)
    /\ ewe = FALSE
    /\ packedgraph = TRUE
    /\ sentno = 0
    /\ fd = <<>> /\ ntfd = <<>> /\ rulecounts = <<>>
    /\ packedgraphs = <<>> /\ packed_graph_ids = 0
    /\ utrees = <<>> /\ runs = 1
    /\ result = Returned(<<>>)
    /\ ProdIdle /\ IdsIdle /\ DDIdle

\* lines 163-170: the next call, after the last one returned or raised
DopCall ==
    /\ mode = "dopreduction" /\ pc \in {"done", "raised"} /\ runs < MaxRuns
    /\ corpus' \in Corpora(MaxTrees, RunMaxNodes)
    /\ sentno' = 0
    /\ fd' = <<>> /\ ntfd' = <<>> /\ rulecounts' = <<>>
    /\ utrees' = <<>>
    /\ result' = Returned(<<>>)
    /\ pc' = "collect"
    /\ runs' = runs + 1
    /\ UNCHANGED <<mode, ewe, packedgraph, packedgraphs, packed_graph_ids, prodvars,
                   idvars, ddvars>>

NextRuns == DopCollect \/ DopRaise \/ DopEstimate \/ DopCall

SpecRuns == InitRuns /\ [][NextRuns]_vars

\* C20: the cache of the memoized decoration is reset at the start of every
\* run: when a run, also one that follows a run that raised, is about to
\* decorate its first tree, the cache is empty.
C20_CacheEmptyAtRunStart ==
    (mode = "dopreduction" /\ packedgraph /\ pc = "collect" /\ sentno = 0
        /\ corpus # <<>>)
        => packedgraphs = <<>>

-----------------------------------------------------------------------------
(* dopreduction on corpora in which subtrees recur, with and without the   *)
(* packed graph                                                            *)

DecoMaxTrees == 2
DecoMaxNodes == 4
DecoMaxLeaves == 2

\* a tree of k nodes over a sentence of one word throughout
DecoItems(k) ==
    UNION {{[t |-> t, s |-> [j \in 1..m |-> <<"a">>]] : t \in Gen(k, 0..(m - 1), {})}
           : m \in 1..DecoMaxLeaves}

\* trees of k nodes in which a subtree recurs at another index: twice in
\* one tree, or at the index 1 what other trees have at the index 0
TwinItems(k) ==
    IF k = 3 THEN {[t |-> T(<<"A">>, <<T(<<"A">>, <<I(0)>>), T(<<"A">>, <<I(1)>>)>>),
                    s |-> <<<<"a">>, <<"a">>>>]}
    ELSE IF k = 2 THEN {[t |-> T(<<"A">>, <<T(<<"A">>, <<I(1)>>)>>),
                         s |-> <<<<"b">>, <<"a">>>>]}
    ELSE {}

RECURSIVE DecoCorpora(_, _)
\* the corpora of at most j trees with at most b nodes altogether
DecoCorpora(j, b) ==
    IF j = 0 \/ b = 0 THEN {<<>>}
    ELSE {<<>>} \cup UNION {UNION {{<<x>> \o c : c \in DecoCorpora(j - 1, b - k)}
                                   : x \in DecoItems(k) \cup TwinItems(k)
                                            \cup (IF k = 1 THEN BadItems ELSE {})}
                            : k \in 1..b}

InitDeco ==
    /\ mode = "dopreduction"
    /\ pc = "collect"
    /\ corpus \in DecoCorpora(DecoMaxTrees, DecoMaxNodes)
    /\ ewe = FALSE
    /\ packedgraph \in BOOLEAN
    /\ sentno = 0
    /\ fd = <<>> /\ ntfd = <<>> /\ rulecounts = <<>>
    /\ packedgraphs = <<>> /\ packed_graph_ids = 0
    /\ utrees = <<>> /\ runs = 1
    /\ result = Returned(<<>>)
    /\ ProdIdle /\ IdsIdle /\ DDIdle

SpecDeco == InitDeco /\ [][NextDop]_vars

RECURSIVE SameShape(_, _)
\* the same shape and the same leaves: only the labels may differ
SameShape(t, u) ==
    IF ~isTree(t) \/ ~isTree(u) THEN t = u
    ELSE /\ Len(t.ch) = Len(u.ch)
         /\ \A i \in 1..Len(t.ch) : SameShape(t.ch[i], u.ch[i])

\* the labels of the nodes of t in pre-order
labelsof(t) == [j \in 1..Len(subtrees(t)) |-> subtrees(t)[j].label]

\* the non-root nodes of the i-th tree in pre-order, the first with the
\* ordinal 0, each with its decorated copy
nodesof(i) ==
    LET st == subtrees(corpus[i].t)
        ust == subtrees(utrees[i])
    IN [j \in 1..((IF Len(st) < Len(ust) THEN Len(st) ELSE Len(ust)) - 1) |->
            [n |-> i - 1, ord |-> j - 1, plain |-> st[j + 1], deco |-> ust[j + 1],
             s |-> corpus[i].s]]

\* the non-root nodes of all trees read so far
Nodes == Concat([i \in 1..Len(utrees) |-> nodesof(i)])

PlainRun == mode = "dopreduction" /\ ~packedgraph

\* C12: decorate_with_ids(n, tree, _) keeps the shape and the leaves, leaves
\* the root's label alone and labels the i-th non-root node in pre-order
\* (i from 0) '<plain label>@n-i'; over a pass that gives every tree its own
\* n, no two non-root nodes of any trees get the same decorated label.
C12_DecorateWithIds ==
    PlainRun =>
        LET ns == Nodes
        IN /\ \A i \in 1..Len(utrees) :
                 /\ SameShape(corpus[i].t, utrees[i])
                 /\ utrees[i].label = corpus[i].t.label
           /\ \A x \in 1..Len(ns) :
                 ns[x].deco.label
                    = ns[x].plain.label \o <<"@">> \o Dec(ns[x].n)
                        \o <<"-">> \o Dec(ns[x].ord)
           /\ \A x, y \in 1..Len(ns) : x # y => ns[x].deco.label # ns[y].deco.label

\* two trees were decorated whose first non-root nodes have one plain label
\* and one ordinal, so that only n tells their decorated labels apart
C12_Witness ==
    /\ PlainRun /\ Len(utrees) = 2
    /\ \E x, y \in Range(Nodes) :
          /\ x.n # y.n /\ x.ord = y.ord /\ x.plain.label = y.plain.label

\* the productions of the i-th tree and of its decorated tree
PlainProds(i) == lcfrs_productions(corpus[i].t, corpus[i].s, FALSE).rules
DecoProds(i) == lcfrs_productions(utrees[i], corpus[i].s, FALSE).rules

\* zip(prods, uprods) for the i-th tree
pairsof(i) ==
    LET pp == PlainProds(i)
        dp == DecoProds(i)
    IN [j \in 1..(IF Len(pp) < Len(dp) THEN Len(pp) ELSE Len(dp)) |->
            [a |-> pp[j], b |-> dp[j]]]

\* the pairs of productions of all trees read so far
ProdPairs == Concat([i \in 1..Len(utrees) |-> pairsof(i)])

\* the rules that the plain labels a and the decorated labels b give when
\* every subset of the positions of P where they differ keeps its
\* decorated label and the other positions are plain
Generalised(a, b, P) ==
    {[p \in 1..Len(a) |-> IF p \in S THEN b[p] ELSE a[p]] :
        S \in SUBSET {p \in P : a[p] # b[p]}}

\* the positions that are generalised: the RHS, and the LHS too or not
GenPositions(x, lhstoo) == (IF lhstoo THEN 1 ELSE 2)..Len(x.a.r)

\* how often the key is due for the pairs ps
Due(ps, key, lhstoo) ==
    Cardinality({x \in 1..Len(ps) :
        /\ key.yf = ps[x].a.yf /\ key.w = ps[x].a.w
        /\ key.r \in Generalised(ps[x].a.r, ps[x].b.r, GenPositions(ps[x], lhstoo))})

\* the table holds every key that is due for the pairs ps, with the number
\* of times it is due
TableIs(ps, lhstoo) ==
    /\ \A e \in Range(rulecounts) : e.freq = Due(ps, e.rule, lhstoo)
    /\ \A x \in 1..Len(ps) :
          \A r \in Generalised(ps[x].a.r, ps[x].b.r, GenPositions(ps[x], lhstoo)) :
             \E e \in Range(rulecounts) : e.rule = Rule(r, ps[x].a.yf, ps[x].a.w)

DopRun == mode = "dopreduction" /\ pc \in {"collect", "done"}

\* C16 as stated: a decorated production is generalised at its RHS
\* positions only: the 2^k rules that revert a subset of its k decorated RHS
\* labels are each counted once under its yield function, the LHS is the
\* plain label, and no rule of the returned grammar has a decorated LHS.
C16_LhsStaysPlain ==
    DopRun =>
        /\ TableIs(ProdPairs, FALSE)
        /\ pc = "done" =>
              \A i \in 1..Len(result.rules) : ~isdecorated(result.rules[i].rule.r[1])

\* C16 as amended: a decorated production is generalised at every position
\* whose decorated label differs from the plain one, the LHS included: the
\* 2^k rules that revert a subset of these k labels are each counted once
\* under its yield function, and the rules of the returned grammar are the
\* keys of the table, decorated LHS among them.
C16_LhsGeneralisedToo ==
    DopRun =>
        /\ TableIs(ProdPairs, TRUE)
        /\ pc = "done" =>
              {result.rules[i].rule : i \in 1..Len(result.rules)}
                 = {e.rule : e \in Range(rulecounts)}

\* a node below the root with a node below it gave four rules: its LHS
\* decorated or plain, its RHS decorated or plain
C16_Witness ==
    /\ mode = "dopreduction" /\ pc = "done"
    /\ \E x \in Range(ProdPairs) :
          /\ Cardinality({p \in 1..Len(x.a.r) : x.a.r[p] # x.b.r[p]}) = 2
          /\ x.a.r[1] # x.b.r[1]
          /\ \A r \in Generalised(x.a.r, x.b.r, 1..Len(x.a.r)) :
                \E i \in 1..Len(result.rules) :
                    result.rules[i].rule = Rule(r, x.a.yf, x.a.w)

\* the tree that the loop is about to read is valid
NextValid ==
    /\ pc = "collect" /\ sentno < Len(corpus)
    /\ lcfrs_productions(corpus[sentno + 1].t, corpus[sentno + 1].s, FALSE).err = ""

\* the two lists of productions of the i-th tree: one length, and the same
\* yield function at every position
InStep(pp, dp) ==
    /\ Len(dp) = Len(pp)
    /\ \A j \in 1..Len(pp) : dp[j].yf = pp[j].yf /\ dp[j].w = pp[j].w

\* C18: for every valid tree, with decorate_with_ids and with
\* decorate_with_ids_mem, the decorated tree has the shape and the leaf
\* indices of the tree, the two lists of productions have one length and
\* the same yield function at every position, and the assertion
\* avar == bvar does not fail; no grammar is returned unless every pair of
\* the corpus went through that assertion.
C18_LockStep ==
    mode = "dopreduction" =>
        /\ \A i \in 1..Len(utrees) :
              /\ SameShape(corpus[i].t, utrees[i])
              /\ InStep(PlainProds(i), DecoProds(i))
        /\ NextValid => decorated(corpus[sentno + 1]).err = ""
        /\ pc = "done" => Len(utrees) = Len(corpus)

\* a run with the packed graph returned after a cache hit on a subtree
\* whose indices are not those of the stored occurrence, below a node with
\* two children
C18_Witness ==
    /\ mode = "dopreduction" /\ pc = "done" /\ packedgraph
    /\ \E x, y \in Range(Nodes) :
          x.deco.label = y.deco.label /\ leaves(x.deco) # leaves(y.deco)
    /\ \E x \in Range(ProdPairs) : Len(x.a.r) = 3

RECURSIVE EqualSub(_, _, _, _)
\* equal labels, equal shape and equal words at the leaves
EqualSub(t1, s1, t2, s2) ==
    IF isTree(t1) /\ isTree(t2)
    THEN /\ t1.label = t2.label /\ Len(t1.ch) = Len(t2.ch)
         /\ \A i \in 1..Len(t1.ch) : EqualSub(t1.ch[i], s1, t2.ch[i], s2)
    ELSE isInt(t1) /\ isInt(t2) /\ s1[t1.idx + 1] = s2[t2.idx + 1]

PackedRun == mode = "dopreduction" /\ packedgraph

\* C19: in a run with decorate_with_ids_mem, two non-root subtrees with
\* equal labels, shape and words get the same decorated label at every
\* node, in one tree or in two, and every decorated subtree has the leaf
\* indices of its own occurrence.
C19_EqualSubtreesShareLabels ==
    PackedRun =>
        LET ns == Nodes
        IN /\ \A x, y \in 1..Len(ns) :
                 EqualSub(ns[x].plain, ns[x].s, ns[y].plain, ns[y].s)
                    => labelsof(ns[x].deco) = labelsof(ns[y].deco)
           /\ \A x \in 1..Len(ns) : leaves(ns[x].deco) = leaves(ns[x].plain)

\* equal subtrees at different indices were decorated, in two trees
C19_Witness ==
    /\ PackedRun
    /\ \E x, y \in Range(Nodes) :
          /\ x.n # y.n
          /\ EqualSub(x.plain, x.s, y.plain, y.s)
          /\ leaves(x.plain) # leaves(y.plain)

-----------------------------------------------------------------------------
(* Double-DOP: the mass of every production before normalisation *)

MassMaxFrags == 2
MassMaxNodes == 6

InitMass ==
    /\ mode = "doubledop"
    /\ pc = "loop"
    /\ ewe \in BOOLEAN
    /\ \E fs \in FragSeqs(MassMaxFrags, MassMaxNodes) :
          /\ \A i, j \in 1..Len(fs) : i # j => fs[i] # fs[j]
          /\ fragments = [i \in 1..Len(fs) |->
                            [t |-> fs[i].t, s |-> fs[i].s, val |-> occurrences(i, ewe)]]
    /\ fragno = 0
    /\ grammar = <<>> /\ backtransform = <<>> /\ flattened = NoProds /\ flat = <<>>
    /\ result = Returned(<<>>)
    /\ corpus = <<>> /\ packedgraph = FALSE /\ sentno = 0
    /\ fd = <<>> /\ ntfd = <<>> /\ rulecounts = <<>>
    /\ packedgraphs = <<>> /\ packed_graph_ids = 0
    /\ utrees = <<>> /\ runs = 0
    /\ ProdIdle /\ IdsIdle

SpecMass == InitMass /\ [][NextDD]_vars

\* the loop of doubledop is between two fragments, or past the last one:
\* grammar is the dict of lines 263-264
InLoop == mode = "doubledop" /\ pc = "loop"

\* the number of fragments extracted from the tree k, over all fragments
TreeTotal(k) ==
    SumSeq([i \in 1..Len(fragments) |->
              IF k \in DOMAIN fragments[i].val THEN fragments[i].val[k] ELSE 0])

\* the mass of the j-th fragment: its count, or with ewe the sum over its
\* trees of its count in the tree divided by the number of fragments
\* extracted from the tree
MassOf(j) ==
    IF ewe
    THEN LET ks == SetToSeq(DOMAIN fragments[j].val)
         IN FracSum([n \in 1..Len(ks) |->
                       Fraction(fragments[j].val[ks[n]], TreeTotal(ks[n]))])
    ELSE FracOfInt(fragments[j].val)

\* the mass that grammar holds for the production
Holds(rule, mass) == rule \in DOMAIN grammar /\ grammar[rule] = mass

OwnHead(j) == \A i \in 1..Len(flat) : i # j => flat[i].head # flat[j].head

====
